---- MODULE Spec2Model ----
(***************************************************************************)
(* Model of the chunked-generation merge engine gpt(), of the one-shot     *)
(* generate_minutes() and of the request handlers that run gpt()           *)
(* (BACKEND/llamada_gpt.py, BACKEND/llm_client.py, app.py).                *)
(*                                                                         *)
(* Python strings are sequences of one-character strings, Optional[str]    *)
(* values use the sentinel None, Python dicts are insertion-ordered        *)
(* sequences of [k, v] entries, and pydantic objects that the code mutates *)
(* in place live in a heap and are referred to by their index.             *)
(***************************************************************************)
EXTENDS Integers, Sequences, FiniteSets, TLC

\* ------------------------------------------------------------------------
\* Bounds of the model
\* ------------------------------------------------------------------------
MaxFragments == 2
MaxTopics == 3
MaxHandlers == 2
MaxContentLen == 4
MaxTextLen == 5
MaxTamano == 4
MaxContextTopics == 6
MaxTimestamps == 2
MaxLines == 2

\* ------------------------------------------------------------------------
\* Strings
\* ------------------------------------------------------------------------
None == <<"None">>

Truthy(v) == v # None /\ v # <<>>

OrEmpty(v) == IF v = None THEN <<>> ELSE v

Whitespace == {" ", "\n", "\t"}

Digits == <<"0", "1", "2", "3", "4", "5", "6", "7", "8", "9">>

IsDigit(c) == \E i \in 1..10 : Digits[i] = c

DigitVal(c) == CHOOSE i \in 0..9 : Digits[i + 1] = c

RECURSIVE NatToStr(_)
NatToStr(n) ==
    IF n < 10 THEN <<Digits[n + 1]>>
    ELSE NatToStr(n \div 10) \o <<Digits[(n % 10) + 1]>>

LowerLetters ==
    <<"a", "b", "c", "d", "e", "f", "g", "h", "i", "j", "k", "l", "m",
      "n", "o", "p", "q", "r", "s", "t", "u", "v", "w", "x", "y", "z">>

UpperLetters ==
    <<"A", "B", "C", "D", "E", "F", "G", "H", "I", "J", "K", "L", "M",
      "N", "O", "P", "Q", "R", "S", "T", "U", "V", "W", "X", "Y", "Z">>

\* str.lower on one character
LowerChar(c) ==
    IF \E i \in 1..Len(UpperLetters) : UpperLetters[i] = c
    THEN LowerLetters[CHOOSE i \in 1..Len(UpperLetters) : UpperLetters[i] = c]
    ELSE c

Lower(s) == [i \in 1..Len(s) |-> LowerChar(s[i])]

RECURSIVE LStrip(_)
LStrip(s) ==
    IF s # <<>> /\ Head(s) \in Whitespace THEN LStrip(Tail(s)) ELSE s

RECURSIVE RStrip(_)
RStrip(s) ==
    IF s # <<>> /\ s[Len(s)] \in Whitespace
    THEN RStrip(SubSeq(s, 1, Len(s) - 1)) ELSE s

Strip(s) == RStrip(LStrip(s))

\* re.sub(r"\s+", " ", s)
RECURSIVE CollapseWs(_)
CollapseWs(s) ==
    IF s = <<>> THEN <<>>
    ELSE IF Head(s) \in Whitespace
         THEN <<" ">> \o CollapseWs(LStrip(s))
         ELSE <<Head(s)>> \o CollapseWs(Tail(s))

\* the characters of the class in re.sub(r"[...]+", "", s); the inverted marks,
\* the double quote and the backquote are not in the model's alphabet
Punctuation ==
    {".", ",", ";", ":", "!", "?", "-", "(", ")", "[", "]", "{", "}", "'"}

RemovePunct(s) == SelectSeq(s, LAMBDA c : c \notin Punctuation)

_normalize_text(s) == RemovePunct(Strip(CollapseWs(Lower(OrEmpty(s)))))

NO_TIME == 1000000000

_time_to_seconds(value) ==
    IF ~Truthy(value) THEN NO_TIME
    ELSE LET c == Strip(value)
             n == Len(c)
         IN  IF /\ n \in {4, 5}
                /\ c[n - 2] = ":"
                /\ \A i \in (1..n) \ {n - 2} : IsDigit(c[i])
             THEN LET minutes == IF n = 5
                                 THEN 10 * DigitVal(c[1]) + DigitVal(c[2])
                                 ELSE DigitVal(c[1])
                      seconds == 10 * DigitVal(c[n - 1]) + DigitVal(c[n])
                  IN  minutes * 60 + seconds
             ELSE NO_TIME

_strip_bullet_prefix(text) ==
    LET t == LStrip(OrEmpty(text))
    IN  IF t # <<>> /\ Head(t) \in {"-", "*"} THEN Strip(Tail(t)) ELSE Strip(t)

\* str.split("\n")
RECURSIVE SplitNl(_)
SplitNl(s) ==
    LET P == {i \in 1..Len(s) : s[i] = "\n"}
    IN  IF P = {} THEN <<s>>
        ELSE LET i == CHOOSE j \in P : \A k \in P : j <= k
             IN  <<SubSeq(s, 1, i - 1)>> \o SplitNl(SubSeq(s, i + 1, Len(s)))

\* str.splitlines(): no empty last line after a final line break
SplitLines(s) ==
    IF s = <<>> THEN <<>>
    ELSE LET parts == SplitNl(s)
         IN  IF parts[Len(parts)] = <<>>
             THEN SubSeq(parts, 1, Len(parts) - 1) ELSE parts

NonBlank(lines) == SelectSeq(lines, LAMBDA ln : Strip(ln) # <<>>)

RECURSIVE JoinNl(_)
JoinNl(lines) ==
    IF lines = <<>> THEN <<>>
    ELSE IF Len(lines) = 1 THEN lines[1]
    ELSE lines[1] \o <<"\n">> \o JoinNl(Tail(lines))

BulletKey(ln) == _normalize_text(_strip_bullet_prefix(ln))

Range(s) == {s[i] : i \in 1..Len(s)}

\* ------------------------------------------------------------------------
\* Python dicts: insertion-ordered sequences of entries [k, v], keys unique
\* ------------------------------------------------------------------------
DictKeys(d) == {d[i].k : i \in 1..Len(d)}

DictHas(d, key) == key \in DictKeys(d)

DictGet(d, key) == d[CHOOSE i \in 1..Len(d) : d[i].k = key].v

DictSet(d, key, val) ==
    IF DictHas(d, key)
    THEN [i \in 1..Len(d) |-> IF d[i].k = key THEN [k |-> key, v |-> val] ELSE d[i]]
    ELSE Append(d, [k |-> key, v |-> val])

DictPop(d, key) == SelectSeq(d, LAMBDA e : e.k # key)

\* ------------------------------------------------------------------------
\* Inputs: what the generation service may answer for a fragment
\* ------------------------------------------------------------------------
Id_p == <<"p">>
Id_p_1 == <<"p", "_", "1">>

Title_A == <<"A">>
Title_a_ == <<"a", " ">>
Title_B == <<"B">>

T_05_00 == <<"0", "5", ":", "0", "0">>
T_05_02 == <<"0", "5", ":", "0", "2">>

Topic(id, title, time) == [id |-> id, title |-> title, time |-> time]

\* MainPoint
TopicInputs ==
    { Topic(Id_p, Title_A, T_05_02),
      Topic(Id_p, Title_a_, T_05_02),
      Topic(Id_p, Title_a_, T_05_00),
      Topic(Id_p_1, Title_A, None),
      Topic(<<>>, Title_B, T_05_00),
      Topic(Id_p, Title_B, T_05_00) }

Line_x == <<"-", " ", "x">>
Line_y == <<"-", " ", "y">>

\* DetailedSummaryItem
Detail(title, content) ==
    [title |-> title, content |-> content, key_timestamps |-> <<>>, start_time |-> None]

Detail_x == Detail(<<"A">>, Line_x)
Detail_xy == Detail(<<"B">>, Line_x \o <<"\n">> \o Line_y)

\* StructuredSummaryNoTasks.detailed_summary
DetailMaps ==
    { <<>>,
      <<[k |-> Id_p, v |-> Detail_xy], [k |-> Id_p_1, v |-> Detail_x]>>,
      <<[k |-> Id_p_1, v |-> Detail_x]>> }

\* Metadata of the answer for fragment i
MetadataOf(i) == [title |-> <<"M">> \o NatToStr(i), participants |-> <<>>]

\* the tasks_and_objectives of the payload returned for fragment i, as
\* repair_json_structure leaves them
TasksOf(i) == <<[task |-> <<"t">>, description |-> NatToStr(i)]>>

ParticipantInputs == {<<>>}

\* ------------------------------------------------------------------------
\* State of one invocation of gpt()
\* ------------------------------------------------------------------------
VARIABLES
    pc,                     \* position in gpt()
    participants,           \* argument of gpt()
    n_chunks,               \* len(transcript_chunks)
    idx,                    \* index of the fragment loop
    requests,               \* requests issued through call_gpt_structured
    global_main_points,
    global_detailed_summary,\* dict id -> heap reference
    heap,                   \* DetailedSummaryItem objects
    metadata_final,         \* <<>> for None, or <<Metadata>>
    used_ids,
    seen_main_point_keys,
    mp,                     \* the loop variable of line 431
    original_id,            \* the local of line 441
    incoming_details,       \* dict id -> heap reference
    filtered_main_points,
    remapped_details,       \* dict id -> heap reference
    resumen_json,           \* the file resumen.json: <<>> or <<document>>
    error                   \* the exception gpt() ended with, or None

gptLocals ==
    <<pc, participants, n_chunks, idx, requests, global_main_points,
      global_detailed_summary, heap, metadata_final, used_ids,
      seen_main_point_keys, mp, original_id, incoming_details,
      filtered_main_points, remapped_details, error>>

gptVars == <<gptLocals, resumen_json>>

mergeState ==
    <<global_main_points, global_detailed_summary, heap, metadata_final,
      used_ids, seen_main_point_keys>>

fragmentLocals ==
    <<mp, original_id, incoming_details, filtered_main_points,
      remapped_details>>

\* ------------------------------------------------------------------------
\* State of one invocation of generate_minutes()
\* ------------------------------------------------------------------------
VARIABLES
    m_pc,                   \* position in generate_minutes()
    m_participants,         \* argument participants
    transcript_text,        \* argument transcript_text
    minutes_data,           \* <<>> before validation, or <<MinutesResponse>>
    existing_details,       \* dict id -> [title, content]
    m_idx,                  \* index of the backfill loop (line 766)
    m_requests,             \* requests issued through client.chat.completions
    result,                 \* <<>> or <<the dict returned>>
    m_error                 \* the exception generate_minutes() ended with

minutesVars ==
    <<m_pc, m_participants, transcript_text, minutes_data, existing_details,
      m_idx, m_requests, result, m_error>>

\* ------------------------------------------------------------------------
\* State of the request handlers that run gpt() and read resumen.json back;
\* the file itself is the variable resumen_json
\* ------------------------------------------------------------------------
VARIABLES
    h_pc,                   \* position of each direct_summarize_transcript
    resumen_data,           \* the local resumen_data of each handler
    db_resumen              \* reuniones[unique_id].resumen of each handler

handlerVars == <<h_pc, resumen_data, db_resumen>>

\* ------------------------------------------------------------------------
\* One call of a function that touches no state: its arguments and, once it
\* has returned, <<its result>>
\* ------------------------------------------------------------------------
VARIABLES
    fn_args,
    fn_ret

callVars == <<fn_args, fn_ret>>

outsideGpt == <<minutesVars, handlerVars, callVars>>

outsideMinutes == <<gptVars, handlerVars, callVars>>

outsideHandlers == <<gptLocals, minutesVars, callVars>>

outsideCall == <<gptVars, minutesVars, handlerVars>>

CallIdle == fn_args = <<>> /\ fn_ret = <<>>

\* the value of the locals mp and original_id while they are unbound
Unbound == [id |-> <<>>, title |-> <<>>, time |-> None]

InitGpt ==
    /\ pc = "start"
    /\ participants \in ParticipantInputs
    /\ n_chunks = 0
    /\ idx = 0
    /\ requests = <<>>
    /\ global_main_points = <<>>
    /\ global_detailed_summary = <<>>
    /\ heap = <<>>
    /\ metadata_final = <<>>
    /\ used_ids = {}
    /\ seen_main_point_keys = {}
    /\ mp = Unbound
    /\ original_id = <<>>
    /\ incoming_details = <<>>
    /\ filtered_main_points = <<>>
    /\ remapped_details = <<>>
    /\ resumen_json = <<>>
    /\ error = None

\* create_chat_client raises ValueError when no API key is configured
CreateClientFails ==
    /\ pc = "start"
    /\ pc' = "raised"
    /\ error' = <<"ValueError">>
    /\ UNCHANGED <<participants, n_chunks, idx, requests, mergeState,
                   fragmentLocals, resumen_json>>
    /\ UNCHANGED outsideGpt

\* the transcript file does not exist: a default document is written
TranscriptNotFound ==
    /\ pc = "start"
    /\ resumen_json' =
         <<[metadata |-> [title |-> <<"Error: Transcript not found">>,
                          participants |-> <<>>],
            main_points |-> <<>>,
            detailed_summary |-> <<>>]>>
    /\ pc' = "no_transcript"
    /\ UNCHANGED <<participants, n_chunks, idx, requests, mergeState,
                   fragmentLocals, error>>
    /\ UNCHANGED outsideGpt

\* the transcript is read and split by dividir_texto into n fragments
ReadTranscript(n) ==
    /\ pc = "start"
    /\ n_chunks' = n
    /\ pc' = "loop"
    /\ UNCHANGED <<participants, idx, requests, mergeState, fragmentLocals,
                   resumen_json, error>>
    /\ UNCHANGED outsideGpt

\* ------------------------------------------------------------------------
\* The fragment loop
\* ------------------------------------------------------------------------
CONTEXT_POINTS == 5

\* mutant: the first n topics are taken
LastN_first(s, n) == IF Len(s) <= n THEN s ELSE SubSeq(s, 1, n)

\* "previous_points[-5:]"; prompts.py line 118
LastN(s, n) == IF Len(s) <= n THEN s ELSE SubSeq(s, Len(s) - n + 1, Len(s))

\* call_gpt_structured: the request for fragment i, with what its extra system
\* message carries, whether it returned a validated result and the action
\* items of its payload; the validated StructuredSummaryNoTasks has no field
\* for them
RequestFor(i, main_points, parsed) ==
    [idx |-> i,
     parsed |-> parsed,
     tasks |-> IF parsed THEN TasksOf(i) ELSE <<>>,
     first_chunk |-> (i = 0),
     covered |-> IF i = 0 THEN <<>>
                 ELSE LET prev == LastN(main_points, CONTEXT_POINTS)
                      IN  [j \in 1..Len(prev) |-> prev[j].title]]

\* mutant: a failed request ends the whole operation
RequestFails_fatal ==
    /\ pc = "loop"
    /\ idx < n_chunks
    /\ requests' = Append(requests, RequestFor(idx, global_main_points, FALSE))
    /\ pc' = "raised"
    /\ error' = <<"Exception">>
    /\ UNCHANGED <<participants, n_chunks, idx, mergeState, fragmentLocals,
                   resumen_json>>
    /\ UNCHANGED outsideGpt

\* the request fails or its payload does not validate: partial_res is None
RequestFails ==
    /\ pc = "loop"
    /\ idx < n_chunks
    /\ requests' = Append(requests, RequestFor(idx, global_main_points, FALSE))
    /\ idx' = idx + 1
    /\ UNCHANGED <<pc, participants, n_chunks, mergeState, fragmentLocals,
                   resumen_json, error>>
    /\ UNCHANGED outsideGpt

\* the request returns a validated partial result; lines 402-419
RequestSucceeds(details) ==
    /\ pc = "loop"
    /\ idx < n_chunks
    /\ requests' = Append(requests, RequestFor(idx, global_main_points, TRUE))
    /\ metadata_final' = IF idx = 0 THEN <<MetadataOf(idx)>> ELSE metadata_final
    /\ used_ids' = used_ids
                     \cup {global_main_points[i].id : i \in 1..Len(global_main_points)}
                     \cup DictKeys(global_detailed_summary)
    /\ heap' = heap \o [i \in 1..Len(details) |-> details[i].v]
    /\ incoming_details' =
         [i \in 1..Len(details) |-> [k |-> details[i].k, v |-> Len(heap) + i]]
    /\ filtered_main_points' = <<>>
    /\ remapped_details' = <<>>
    /\ pc' = "merge"
    /\ UNCHANGED <<participants, n_chunks, idx, global_main_points, mp, original_id,
                   global_detailed_summary, seen_main_point_keys,
                   resumen_json, error>>
    /\ UNCHANGED outsideGpt

RECURSIVE FreeCandidate(_, _, _)
FreeCandidate(base, suffix, used) ==
    LET candidate == base \o <<"_">> \o NatToStr(suffix)
    IN  IF candidate \in used THEN FreeCandidate(base, suffix + 1, used)
        ELSE candidate

\* mutant: the collision loop is missing
_ensure_unique_id_no_loop(base, used) ==
    IF base = <<>> THEN <<"i", "t", "e", "m">> ELSE base

\* mutant: the suffix counter starts at 2
_ensure_unique_id_from_2(base, used) ==
    LET b == IF base = <<>> THEN <<"i", "t", "e", "m">> ELSE base
    IN  IF b \in used THEN FreeCandidate(b, 2, used) ELSE b

\* the id returned; the caller adds it to used_ids
_ensure_unique_id(base, used) ==
    LET b == IF base = <<>> THEN <<"i", "t", "e", "m">> ELSE base
    IN  IF b \in used THEN FreeCandidate(b, 1, used) ELSE b

\* mutant: the title is not normalized
mp_key_raw(point) == point.title \o <<"|">> \o Strip(OrEmpty(point.time))

mp_key(point) ==
    _normalize_text(point.title) \o <<"|">> \o Strip(OrEmpty(point.time))

PositionalId(n) == <<"p", "t", "_">> \o NatToStr(n)

\* the id an incoming topic is accepted with; lines 441-446
AcceptedId(orig_id, used, position) ==
    IF orig_id = <<>> \/ orig_id \in used
    THEN _ensure_unique_id(
             IF orig_id # <<>> THEN orig_id ELSE PositionalId(position),
             used)
    ELSE orig_id

\* the key of incoming_details looked up for a topic; line 454
DetailLookupKey(orig_id, new_id, incoming) ==
    IF DictHas(incoming, orig_id) THEN orig_id ELSE new_id

\* one iteration of "for mp in partial_res.main_points"; lines 431-458
MergeOne(incoming, max_topics) ==
    /\ pc = "merge"
    /\ Len(global_main_points) + Len(filtered_main_points) < max_topics
    /\ IF mp_key(incoming) \in seen_main_point_keys
       THEN /\ mp' = incoming
            /\ UNCHANGED <<original_id, used_ids, filtered_main_points,
                           seen_main_point_keys, remapped_details>>
       ELSE LET new_id == AcceptedId(incoming.id, used_ids,
                              Len(global_main_points) + Len(filtered_main_points) + 1)
                key == DetailLookupKey(incoming.id, new_id, incoming_details)
            IN  /\ original_id' = incoming.id
                /\ mp' = [incoming EXCEPT !.id = new_id]
                /\ used_ids' = used_ids \cup {new_id}
                /\ filtered_main_points' = Append(filtered_main_points, mp')
                /\ seen_main_point_keys' =
                     seen_main_point_keys \cup {mp_key(incoming)}
                /\ remapped_details' =
                     IF DictHas(incoming_details, key)
                     THEN DictSet(remapped_details, new_id,
                                  DictGet(incoming_details, key))
                     ELSE remapped_details
    /\ UNCHANGED <<pc, participants, n_chunks, idx, requests, global_main_points,
                   global_detailed_summary, heap, metadata_final,
                   incoming_details, resumen_json, error>>
    /\ UNCHANGED outsideGpt

MergeTopic(incoming) == MergeOne(incoming, MaxTopics)

\* "for mp in global_main_points: if mp.id == did: mp.id = new_did; break"
RenameFirst(mps, did, new_did) ==
    LET hits == {i \in 1..Len(mps) : mps[i].id = did}
    IN  IF hits = {} THEN mps
        ELSE LET first == CHOOSE i \in hits : \A j \in hits : i <= j
             IN  [mps EXCEPT ![first].id = new_did]

\* mutant: every incoming detail is treated as a key collision
KeyCollides_always(ds, did) == TRUE

\* "if did in global_detailed_summary"; line 466
KeyCollides(ds, did) == DictHas(ds, did)

\* "for did, ditem in remapped_details.items()"; lines 465-476
RECURSIVE ApplyRemapped(_, _)
ApplyRemapped(rd, st) ==
    IF rd = <<>> THEN st
    ELSE LET did == Head(rd).k
             ditem == Head(rd).v
         IN  IF KeyCollides(st.ds, did)
             THEN LET new_did == _ensure_unique_id(did, st.used)
                  IN  ApplyRemapped(Tail(rd),
                          [mps |-> RenameFirst(st.mps, did, new_did),
                           ds |-> DictSet(st.ds, new_did, ditem),
                           used |-> st.used \cup {new_did}])
             ELSE ApplyRemapped(Tail(rd),
                      [st EXCEPT !.ds = DictSet(st.ds, did, ditem)])

\* "Apply merges" at the end of a fragment; lines 460-477.  The locals of
\* the iteration are dead afterwards and are cleared.
ApplyMerges ==
    /\ pc = "merge"
    /\ LET st == ApplyRemapped(remapped_details,
                     [mps |-> global_main_points \o filtered_main_points,
                      ds |-> global_detailed_summary,
                      used |-> used_ids])
       IN  /\ global_main_points' = st.mps
           /\ global_detailed_summary' = st.ds
           /\ used_ids' = st.used
    /\ mp' = Unbound
    /\ original_id' = <<>>
    /\ incoming_details' = <<>>
    /\ filtered_main_points' = <<>>
    /\ remapped_details' = <<>>
    /\ idx' = idx + 1
    /\ pc' = "loop"
    /\ UNCHANGED <<participants, n_chunks, requests, heap, metadata_final,
                   seen_main_point_keys, resumen_json, error>>
    /\ UNCHANGED outsideGpt

\* ------------------------------------------------------------------------
\* Detail merge
\* ------------------------------------------------------------------------
NoRef == 0

\* dict.get(key) on a dict of heap references
RefGet(d, key) == IF DictHas(d, key) THEN DictGet(d, key) ELSE NoRef

\* mutant: a line of new is never recognised as present
AlreadySeen_never(ln, seen) == FALSE

\* "if norm in seen"; lines 350-351
AlreadySeen(ln, seen) == BulletKey(ln) \in seen

RECURSIVE MergeLines(_, _, _)
MergeLines(merged, seen, new_lines) ==
    IF new_lines = <<>> THEN merged
    ELSE LET ln == Head(new_lines)
         IN  IF Strip(ln) = <<>> \/ AlreadySeen(ln, seen)
             THEN MergeLines(merged, seen, Tail(new_lines))
             ELSE MergeLines(Append(merged, ln), seen \cup {BulletKey(ln)},
                             Tail(new_lines))

_merge_content(base, new) ==
    LET base_lines == NonBlank(SplitLines(OrEmpty(base)))
        seen == {BulletKey(base_lines[i]) : i \in 1..Len(base_lines)}
        merged == MergeLines(base_lines, seen, SplitLines(OrEmpty(new)))
    IN  IF merged # <<>> THEN JoinNl(merged)
        ELSE JoinNl(NonBlank(SplitLines(OrEmpty(new))))

TimestampKey(kt) ==
    <<Strip(OrEmpty(kt.time)), _normalize_text(OrEmpty(kt.description))>>

RECURSIVE MergeTimestamps(_, _, _)
MergeTimestamps(kts, existing_ts, source_kts) ==
    IF source_kts = <<>> THEN kts
    ELSE LET ts == Head(source_kts)
         IN  IF TimestampKey(ts) \in existing_ts
             THEN MergeTimestamps(kts, existing_ts, Tail(source_kts))
             ELSE MergeTimestamps(Append(kts, ts),
                                  existing_ts \cup {TimestampKey(ts)},
                                  Tail(source_kts))

\* the object target after _merge_detail_items(target, source), both not None
MergedDetail(target, source) ==
    [title |-> target.title,
     content |-> _merge_content(OrEmpty(target.content), OrEmpty(source.content)),
     start_time |->
         IF /\ Truthy(source.start_time)
            /\ \/ ~Truthy(target.start_time)
               \/ _time_to_seconds(source.start_time)
                    < _time_to_seconds(target.start_time)
         THEN source.start_time ELSE target.start_time,
     key_timestamps |->
         MergeTimestamps(target.key_timestamps,
             {TimestampKey(target.key_timestamps[i]) :
                  i \in 1..Len(target.key_timestamps)},
             source.key_timestamps)]

\* _merge_detail_items on references: the reference returned and the heap
_merge_detail_items(hp, target, source) ==
    IF target = NoRef THEN [ref |-> source, hp |-> hp]
    ELSE IF source = NoRef THEN [ref |-> target, hp |-> hp]
    ELSE [ref |-> target,
          hp |-> [hp EXCEPT ![target] = MergedDetail(hp[target], hp[source])]]

\* ------------------------------------------------------------------------
\* Global reconciliation pass
\* ------------------------------------------------------------------------
Signature(point) ==
    IF _normalize_text(point.title) # <<>> THEN _normalize_text(point.title)
    ELSE Lower(OrEmpty(point.id))

\* mutant: the canonical topic only takes a time when it has none
ReconciledTime_keep_first(existing_time, mp_time) ==
    IF Truthy(mp_time) /\ ~Truthy(existing_time) THEN mp_time ELSE existing_time

\* the time the canonical topic has after meeting a duplicate; lines 493-495
ReconciledTime(existing_time, mp_time) ==
    IF /\ Truthy(mp_time)
       /\ \/ ~Truthy(existing_time)
          \/ _time_to_seconds(mp_time) < _time_to_seconds(existing_time)
    THEN mp_time ELSE existing_time

\* lines 508-511
RemoveOrphans(ds, valid_ids) == SelectSeq(ds, LAMBDA e : e.k \in valid_ids)

\* lines 497-503: the detail mapping after the merge m of the duplicate's
\* detail into the detail of the canonical topic
DetailsAfterMerge(ds, m, detail, dup_id, existing_id) ==
    IF detail # NoRef /\ dup_id # existing_id
    THEN DictPop(IF m.ref # NoRef THEN DictSet(ds, existing_id, m.ref) ELSE ds,
                 dup_id)
    ELSE IF m.ref # NoRef THEN DictSet(ds, existing_id, m.ref) ELSE ds

\* lines 492-503: cur is a duplicate of the topic at position e of st.deduped
MergeDuplicate(st, cur, detail, e, m) ==
    [sig |-> st.sig,
     deduped |-> [st.deduped EXCEPT ![e].time =
                      ReconciledTime(st.deduped[e].time, cur.time)],
     ds |-> DetailsAfterMerge(st.ds, m, detail, cur.id, st.deduped[e].id),
     hp |-> m.hp]

\* mutant: a duplicate takes the place of the topic seen before it
DedupeStep_last_wins(st, cur, signature, detail) ==
    IF DictHas(st.sig, signature)
    THEN [st EXCEPT !.deduped[DictGet(st.sig, signature)] = cur]
    ELSE [st EXCEPT !.sig = DictSet(st.sig, signature, Len(st.deduped) + 1),
                    !.deduped = Append(st.deduped, cur)]

\* one iteration of "for mp in global_main_points"; lines 484-506.  st.sig
\* maps a signature to the position of its topic in st.deduped
DedupeStep(st, cur, signature, detail) ==
    IF DictHas(st.sig, signature)
    THEN MergeDuplicate(st, cur, detail, DictGet(st.sig, signature),
             _merge_detail_items(st.hp,
                 RefGet(st.ds, st.deduped[DictGet(st.sig, signature)].id),
                 detail))
    ELSE [st EXCEPT !.sig = DictSet(st.sig, signature, Len(st.deduped) + 1),
                    !.deduped = Append(st.deduped, cur)]

RECURSIVE DedupeLoop(_, _)
DedupeLoop(mps, st) ==
    IF mps = <<>> THEN st
    ELSE DedupeLoop(Tail(mps),
             DedupeStep(st, Head(mps), Signature(Head(mps)),
                        RefGet(st.ds, Head(mps).id)))

\* mutant: the topics are deduplicated, the detail mapping is left alone
_dedupe_main_points_only(mps, ds, hp) ==
    [mps |-> DedupeLoop(mps, [sig |-> <<>>, deduped |-> <<>>, ds |-> ds,
                              hp |-> hp]).deduped,
     ds |-> ds,
     hp |-> hp]

\* lines 508-513: what the pass leaves, given the state st after the loop
AfterDedupeLoop(st) ==
    [mps |-> st.deduped,
     ds |-> RemoveOrphans(st.ds, {st.deduped[i].id : i \in 1..Len(st.deduped)}),
     hp |-> st.hp]

_dedupe_main_points_and_details(mps, ds, hp) ==
    AfterDedupeLoop(
        DedupeLoop(mps, [sig |-> <<>>, deduped |-> <<>>, ds |-> ds, hp |-> hp]))

Reconcile ==
    /\ pc = "loop"
    /\ idx = n_chunks
    /\ LET r == _dedupe_main_points_and_details(
                    global_main_points, global_detailed_summary, heap)
       IN  /\ global_main_points' = r.mps
           /\ global_detailed_summary' = r.ds
           /\ heap' = r.hp
    /\ pc' = "bullets"
    /\ UNCHANGED <<participants, n_chunks, idx, requests, metadata_final,
                   used_ids, seen_main_point_keys, fragmentLocals,
                   resumen_json, error>>
    /\ UNCHANGED outsideGpt

\* ------------------------------------------------------------------------
\* Cross-topic bullet deduplication
\* ------------------------------------------------------------------------
\* mutant: only the lines of the same topic are compared
RECURSIVE KeepNewLines_local_only(_, _)
KeepNewLines_local_only(lines, acc) ==
    IF lines = <<>> THEN acc
    ELSE LET ln == Head(lines)
             norm == BulletKey(Strip(ln))
         IN  IF norm \in acc.local
             THEN KeepNewLines_local_only(Tail(lines), acc)
             ELSE KeepNewLines_local_only(Tail(lines),
                      [new_lines |-> Append(acc.new_lines, ln),
                       seen |-> acc.seen \cup {norm},
                       local |-> acc.local \cup {norm}])

\* "for ln in lines"; lines 529-537.  acc = [new_lines, seen, local]
RECURSIVE KeepNewLines(_, _)
KeepNewLines(lines, acc) ==
    IF lines = <<>> THEN acc
    ELSE LET ln == Head(lines)
             norm == BulletKey(Strip(ln))
         IN  IF norm \in acc.seen \/ norm \in acc.local
             THEN KeepNewLines(Tail(lines), acc)
             ELSE KeepNewLines(Tail(lines),
                      [new_lines |-> Append(acc.new_lines, ln),
                       seen |-> acc.seen \cup {norm},
                       local |-> acc.local \cup {norm}])

\* "for mp in global_main_points"; lines 521-541.  st = [hp, seen]
RECURSIVE BulletLoop(_, _, _)
BulletLoop(mps, ds, st) ==
    IF mps = <<>> THEN st
    ELSE LET item == RefGet(ds, Head(mps).id)
         IN  IF item = NoRef \/ ~Truthy(st.hp[item].content)
             THEN BulletLoop(Tail(mps), ds, st)
             ELSE LET lines == NonBlank(SplitNl(st.hp[item].content))
                      acc == KeepNewLines(lines,
                                 [new_lines |-> <<>>, seen |-> st.seen, local |-> {}])
                      new_lines == IF acc.new_lines = <<>> /\ lines # <<>>
                                   THEN <<lines[1]>> ELSE acc.new_lines
                  IN  BulletLoop(Tail(mps), ds,
                          [hp |-> [st.hp EXCEPT ![item].content = JoinNl(new_lines)],
                           seen |-> acc.seen])

_dedupe_detailed_content_across_items(mps, ds, hp) ==
    BulletLoop(mps, ds, [hp |-> hp, seen |-> {}]).hp

DedupeBullets ==
    /\ pc = "bullets"
    /\ heap' = _dedupe_detailed_content_across_items(
                   global_main_points, global_detailed_summary, heap)
    /\ pc' = "finalize"
    /\ UNCHANGED <<participants, n_chunks, idx, requests, global_main_points,
                   global_detailed_summary, metadata_final, used_ids,
                   seen_main_point_keys, fragmentLocals, resumen_json, error>>
    /\ UNCHANGED outsideGpt

\* ------------------------------------------------------------------------
\* Finalization
\* ------------------------------------------------------------------------
DefaultTitle == <<"Acta de Reunion">>

\* lines 551-557
FinalMetadata(md, parts) ==
    LET m == IF md = <<>> THEN [title |-> DefaultTitle, participants |-> <<>>]
             ELSE md[1]
    IN  IF m.participants = <<>> /\ parts # <<>>
        THEN <<[m EXCEPT !.participants = parts]>> ELSE <<m>>

\* final_structured_response; lines 561-567
FinalDocument(md, mps, ds, hp) ==
    [metadata |-> md[1],
     main_points |-> mps,
     detailed_summary |-> [i \in 1..Len(ds) |-> [k |-> ds[i].k, v |-> hp[ds[i].v]]]]

\* mutant: the emptiness check is missing
MustRaise_never(mps) == FALSE

\* "if not global_main_points: raise Exception(...)"; line 547
MustRaise(mps) == mps = <<>>

Finalize ==
    /\ pc = "finalize"
    /\ IF MustRaise(global_main_points)
       THEN /\ pc' = "raised"
            /\ error' = <<"Exception">>
            /\ UNCHANGED <<metadata_final, resumen_json>>
       ELSE /\ metadata_final' = FinalMetadata(metadata_final, participants)
            /\ resumen_json' =
                 <<FinalDocument(metadata_final', global_main_points,
                                 global_detailed_summary, heap)>>
            /\ pc' = "returned"
            /\ UNCHANGED error
    /\ UNCHANGED <<participants, n_chunks, idx, requests, global_main_points,
                   global_detailed_summary, heap, used_ids,
                   seen_main_point_keys, fragmentLocals>>
    /\ UNCHANGED outsideGpt

NextGpt ==
    \/ CreateClientFails
    \/ TranscriptNotFound
    \/ \E n \in 0..MaxFragments : ReadTranscript(n)
    \/ RequestFails
    \/ \E details \in DetailMaps : RequestSucceeds(details)
    \/ \E incoming \in TopicInputs : MergeTopic(incoming)
    \/ ApplyMerges
    \/ Reconcile
    \/ DedupeBullets
    \/ Finalize

\* ------------------------------------------------------------------------
\* generate_minutes(): text helpers
\* ------------------------------------------------------------------------
MinOf(S) == CHOOSE x \in S : \A y \in S : x <= y

MinOf2(a, b) == IF a <= b THEN a ELSE b

MaxOf2(a, b) == IF a >= b THEN a ELSE b

\* [a-zA-Z0-9_], the class \w on the model's alphabet
WordChars == Range(LowerLetters) \cup Range(UpperLetters) \cup Range(Digits) \cup {"_"}

\* str.split(sep) for a one-character separator
RECURSIVE SplitOn(_, _)
SplitAt(s, sep, i) ==
    <<SubSeq(s, 1, i - 1)>> \o SplitOn(SubSeq(s, i + 1, Len(s)), sep)

SplitOn(s, sep) ==
    IF \A i \in 1..Len(s) : s[i] # sep THEN <<s>>
    ELSE SplitAt(s, sep, CHOOSE i \in 1..Len(s) :
                             s[i] = sep /\ \A k \in 1..(i - 1) : s[k] # sep)

\* re.split(r"\s+", cleaned) for a stripped, non-empty string
RECURSIVE SplitWs(_)
SplitWsAt(s, i) ==
    <<SubSeq(s, 1, i - 1)>> \o SplitWs(LStrip(SubSeq(s, i, Len(s))))

SplitWs(s) ==
    IF \A i \in 1..Len(s) : s[i] \notin Whitespace THEN <<s>>
    ELSE SplitWsAt(s, CHOOSE i \in 1..Len(s) :
                          s[i] \in Whitespace /\ \A k \in 1..(i - 1) : s[k] \notin Whitespace)

\* int() of a string of decimal digits
RECURSIVE DigitsToNat(_)
DigitsToNat(ds) ==
    IF ds = <<>> THEN 0
    ELSE 10 * DigitsToNat(SubSeq(ds, 1, Len(ds) - 1)) + DigitVal(ds[Len(ds)])

IsSign(c) == c \in {"+", "-"}

Unsigned(s) == IF s # <<>> /\ IsSign(Head(s)) THEN Tail(s) ELSE s

\* int(s) succeeds: surrounding whitespace, an optional sign, decimal digits
IntParses(s) ==
    /\ Unsigned(Strip(s)) # <<>>
    /\ \A i \in 1..Len(Unsigned(Strip(s))) : IsDigit(Unsigned(Strip(s))[i])

IntOf(s) ==
    IF Strip(s)[1] = "-" THEN 0 - DigitsToNat(Unsigned(Strip(s)))
    ELSE DigitsToNat(Unsigned(Strip(s)))

\* time_to_sec: 'MM:SS' to seconds, 0 on any failure
TimeParts(parts) ==
    IF Len(parts) = 2 /\ IntParses(parts[1]) /\ IntParses(parts[2])
    THEN IntOf(parts[1]) * 60 + IntOf(parts[2])
    ELSE 0

time_to_sec(t) == TimeParts(SplitOn(t, ":"))

\* ln[1:6]
Slice_1_6(ln) == SubSeq(ln, 2, MinOf2(6, Len(ln)))

InWindow(ln, start_sec, end_sec) ==
    /\ Strip(ln) # <<>>
    /\ ln[1] = "["
    /\ start_sec <= time_to_sec(Slice_1_6(ln))
    /\ time_to_sec(Slice_1_6(ln)) < end_sec

extract_segment_lines(lines, start_sec, end_sec) ==
    JoinNl(SelectSeq(lines, LAMBDA ln : InWindow(ln, start_sec, end_sec)))

\* re.match(r'^\[(\d{2}):(\d{2})\]', s)
HasTimestamp(s) ==
    /\ Len(s) >= 7
    /\ s[1] = "[" /\ s[4] = ":" /\ s[7] = "]"
    /\ \A i \in {2, 3, 5, 6} : IsDigit(s[i])

TimestampOf(s) ==
    (10 * DigitVal(s[2]) + DigitVal(s[3])) * 60 + 10 * DigitVal(s[5]) + DigitVal(s[6])

\* _last_ts_seconds: the last line with a timestamp, scanning from the end
RECURSIVE _last_ts_seconds(_)
_last_ts_seconds(ls) ==
    IF ls = <<>> THEN NO_TIME
    ELSE IF HasTimestamp(Strip(ls[Len(ls)])) THEN TimestampOf(Strip(ls[Len(ls)]))
    ELSE _last_ts_seconds(SubSeq(ls, 1, Len(ls) - 1))

\* the aliases one participant contributes; lines 642-653
AliasesOf(name) ==
    IF ~Truthy(name) \/ Strip(name) = <<>> THEN <<>>
    ELSE <<Strip(name)>> \o SelectSeq(SplitWs(Strip(name)), LAMBDA part : Len(part) > 2)

RECURSIVE participant_aliases(_)
participant_aliases(names) ==
    IF names = <<>> THEN <<>>
    ELSE AliasesOf(Head(names)) \o participant_aliases(Tail(names))

Placeholder ==
    <<"u", "n", " ", "p", "a", "r", "t", "i", "c", "i", "p", "a", "n", "t", "e">>

IsWordAt(s, i) == i >= 1 /\ i <= Len(s) /\ s[i] \in WordChars

\* \b holds in front of position i
WordBoundary(s, i) == IsWordAt(s, i - 1) # IsWordAt(s, i)

\* pat occurs at position i, whatever the case
MatchesAt(s, i, pat) ==
    /\ i + Len(pat) - 1 <= Len(s)
    /\ Lower(SubSeq(s, i, i + Len(pat) - 1)) = Lower(pat)

AliasAt(s, i, alias) ==
    /\ MatchesAt(s, i, alias)
    /\ WordBoundary(s, i)
    /\ WordBoundary(s, i + Len(alias))

\* where alias matches at or after position i
AliasMatches(s, i, alias) == {j \in i..Len(s) : AliasAt(s, j, alias)}

\* pattern.sub("un participante", s), scanning from position i: the leftmost
\* match j is replaced and the scan goes on behind it
RECURSIVE SubAlias(_, _, _)
SubAliasAt(s, i, alias, j) ==
    SubSeq(s, i, j - 1) \o Placeholder \o SubAlias(s, j + Len(alias), alias)

SubAlias(s, i, alias) ==
    IF AliasMatches(s, i, alias) = {} THEN SubSeq(s, i, Len(s))
    ELSE SubAliasAt(s, i, alias, MinOf(AliasMatches(s, i, alias)))

RECURSIVE SubAliases(_, _)
SubAliases(s, aliases) ==
    IF aliases = <<>> THEN s
    ELSE SubAliases(SubAlias(s, 1, Head(aliases)), Tail(aliases))

\* the first position at or after i that holds no whitespace
RECURSIVE SkipWs(_, _)
SkipWs(s, i) ==
    IF i <= Len(s) /\ s[i] \in Whitespace THEN SkipWs(s, i + 1) ELSE i

\* the end of the longest (\s+un participante)+ that starts at i, or i
RECURSIVE RunEnd(_, _)
RunEnd(s, i) ==
    IF SkipWs(s, i) > i /\ MatchesAt(s, SkipWs(s, i), Placeholder)
    THEN RunEnd(s, SkipWs(s, i) + Len(Placeholder))
    ELSE i

\* where a placeholder followed by at least one more starts, at or after i
RunStarts(s, i) ==
    {j \in i..Len(s) : /\ MatchesAt(s, j, Placeholder)
                       /\ RunEnd(s, j + Len(Placeholder)) > j + Len(Placeholder)}

\* re.sub(r"(un participante)(\s+un participante)+", r"\1", s, IGNORECASE),
\* scanning from position i: the leftmost run j keeps its first placeholder
RECURSIVE CollapsePlaceholders(_, _)
CollapseAt(s, i, j) ==
    SubSeq(s, i, j + Len(Placeholder) - 1)
        \o CollapsePlaceholders(s, RunEnd(s, j + Len(Placeholder)))

CollapsePlaceholders(s, i) ==
    IF RunStarts(s, i) = {} THEN SubSeq(s, i, Len(s))
    ELSE CollapseAt(s, i, MinOf(RunStarts(s, i)))

_sanitize_text(value, aliases) ==
    IF ~Truthy(value) THEN <<>>
    ELSE CollapsePlaceholders(SubAliases(value, aliases), 1)

MAX_BULLETS == 3

\* the grouping loop of _limit_bullets: a bullet is the list of its lines
RECURSIVE GroupBullets(_, _, _)
GroupStep(stripped, rest, bullets, current) ==
    IF stripped[1] = "-"
    THEN GroupBullets(rest,
                      IF current # <<>> THEN Append(bullets, current) ELSE bullets,
                      <<stripped>>)
    ELSE IF current # <<>>
         THEN GroupBullets(rest, bullets, Append(current, stripped))
         ELSE GroupBullets(rest, bullets, <<<<"-", " ">> \o stripped>>)

GroupBullets(lines, bullets, current) ==
    IF lines = <<>>
    THEN IF current # <<>> THEN Append(bullets, current) ELSE bullets
    ELSE GroupStep(LStrip(Head(lines)), Tail(lines), bullets, current)

\* head line and at most one sub bullet line of a bullet
CleanBlock(block) ==
    Strip(JoinNl(<<RStrip(block[1])>> \o SubSeq(block, 2, MinOf2(2, Len(block)))))

CleanBullets(bullets, max_bullets) ==
    JoinNl([i \in 1..MinOf2(Len(bullets), max_bullets) |-> CleanBlock(bullets[i])])

RStripAll(lines) == [i \in 1..Len(lines) |-> RStrip(lines[i])]

_limit_bullets(value, max_bullets) ==
    IF ~Truthy(value) THEN <<>>
    ELSE IF NonBlank(SplitLines(value)) = <<>> THEN value
    ELSE CleanBullets(GroupBullets(RStripAll(NonBlank(SplitLines(value))), <<>>, <<>>),
                      max_bullets)

\* ------------------------------------------------------------------------
\* generate_minutes(): inputs
\* ------------------------------------------------------------------------
Name_Ana_Li == <<"A", "n", "a", " ", "L", "i">>

\* a participant whose name is a word of the placeholder
Name_Participante ==
    <<"P", "a", "r", "t", "i", "c", "i", "p", "a", "n", "t", "e">>

MinutesParticipantInputs ==
    {<<>>, <<Name_Ana_Li>>, <<Name_Ana_Li, Name_Participante>>}

\* a transcript of "[MM:SS] text" lines with one continuation line
Transcript_1 ==
    JoinNl(<< <<"[", "0", "0", ":", "0", "5", "]", " ", "a">>,
              <<"[", "0", "1", ":", "0", "0", "]", " ", "b">>,
              <<"c">>,
              <<"[", "0", "2", ":", "0", "0", "]", " ", "d">> >>)

\* a transcript whose second line has a one-digit minute
Transcript_2 ==
    JoinNl(<< <<"[", "0", "0", ":", "0", "5", "]", " ", "a">>,
              <<"[", "1", ":", "0", "5", "]", " ", "e">>,
              <<"[", "0", "1", ":", "0", "0", "]", " ", "b">> >>)

TranscriptInputs == {Transcript_1, Transcript_2}

Id_m1 == <<"m", "1">>
Id_m2 == <<"m", "2">>

T_00_05 == <<"0", "0", ":", "0", "5">>
T_01_00 == <<"0", "1", ":", "0", "0">>

\* MinutesMainPoint
MinutesTopic_1 == Topic(Id_m1, Title_A, T_00_05)
MinutesTopic_2 == Topic(Id_m2, Title_B, T_01_00)

Repeat(c, n) == [i \in 1..n |-> c]

DETAIL_MIN_CHARS == 80

\* contents of exactly DETAIL_MIN_CHARS characters, of one less once
\* stripped, and one that names a participant
Content_long == <<"-", " ">> \o Repeat("x", DETAIL_MIN_CHARS - 2)
Content_thin == <<"-", " ">> \o Repeat("x", DETAIL_MIN_CHARS - 3) \o <<" ">>
Content_named == <<"-", " ", "A", "n", "a", " ", "L", "i", " ", " ", "a", "n", "a", " ">> \o Repeat("x", DETAIL_MIN_CHARS)

\* MinutesDetailItem
MinutesDetail(title, content) == [title |-> title, content |-> content]

\* MinutesActionItem
ActionItem(task, description) == [task |-> task, description |-> description]

\* the payload of the single-shot answer; details is <<"none">>,
\* <<"dict", mapping>> or <<"list", items>>
Payload(objective, main_points, details, tasks) ==
    [objective |-> objective,
     metadata |-> [title |-> <<"M">>, participants |-> <<>>],
     main_points |-> main_points,
     details |-> details,
     tasks_and_objectives |-> tasks]

MinutesPayloads ==
    { Payload(<<"A", "n", "a", " ", "L", "i", " ", "y", " ", "A", "N", "A">>,
              <<MinutesTopic_1, MinutesTopic_2>>,
              <<"dict", <<[k |-> Id_m1, v |-> MinutesDetail(Title_A, Content_named)],
                          [k |-> Id_m2, v |-> MinutesDetail(Title_B, Content_thin)]>> >>,
              <<ActionItem(<<"A", "n", "a">>, <<"x">>)>>),
      Payload(None,
              <<MinutesTopic_1, MinutesTopic_2>>,
              <<"none">>,
              <<>>),
      Payload(<<>>,
              <<MinutesTopic_1>>,
              <<"list", <<[id |-> Id_m1, title |-> Title_A, content |-> Content_long],
                          [id |-> <<>>, title |-> Title_B, content |-> Line_x]>> >>,
              <<>>),
      Payload(<<"x">>,
              <<Topic(Id_m1, Title_A, None), MinutesTopic_2>>,
              <<"dict", <<[k |-> Id_m1, v |-> MinutesDetail(Title_A, Content_long)]>> >>,
              <<>>),
      Payload(<<>>, <<>>, <<"dict", <<>> >>, <<>>) }

\* what a backfill request may answer
BackfillReplies ==
    { <<"x">>,
      <<"-", " ", "a", "\n", "b", "\n", "c", "\n", "-", " ", "d", "\n", "-", " ", "e", "\n", "-", " ", "f">>,
      <<"-", " ", "A", "n", "a", " ", "d", "i", "j", "o", " ", "x", " ">> }

\* how the single-shot call can fail: the call raises, the content is no
\* JSON, or the payload does not validate as a MinutesResponse
SingleShotFailures == {"call", "json", "schema"}

\* ------------------------------------------------------------------------
\* generate_minutes(): the operation
\* ------------------------------------------------------------------------
InitMinutesVars ==
    /\ m_pc = "start"
    /\ minutes_data = <<>>
    /\ existing_details = <<>>
    /\ m_idx = 0
    /\ m_requests = <<>>
    /\ result = <<>>
    /\ m_error = None

\* create_chat_client raises ValueError when no API key is configured; the
\* call of line 638 is outside the try of line 700
MinutesClientFails ==
    /\ m_pc = "start"
    /\ m_pc' = "raised"
    /\ m_error' = <<"ValueError">>
    /\ UNCHANGED <<m_participants, transcript_text, minutes_data,
                   existing_details, m_idx, m_requests, result>>
    /\ UNCHANGED outsideMinutes

\* the dict of the outer except; lines 851-860
MinimalMinutes(parts) ==
    [objective |-> <<>>,
     metadata |-> [title |-> DefaultTitle, participants |-> parts],
     main_points |-> <<>>,
     details |-> << <<>> >>,
     tasks_and_objectives |-> <<>>]

SingleShotRequest(outcome) == [kind |-> "single_shot", outcome |-> outcome]

\* the single-shot call raises, or json.loads or model_validate does: the
\* outer except returns the minimal document
SingleShotFails(failure) ==
    /\ m_pc = "start"
    /\ m_requests' = Append(m_requests, SingleShotRequest(failure))
    /\ result' = <<MinimalMinutes(m_participants)>>
    /\ m_pc' = "returned"
    /\ UNCHANGED <<m_participants, transcript_text, minutes_data,
                   existing_details, m_idx, m_error>>
    /\ UNCHANGED outsideMinutes

\* f"detail_{idx}"
DetailKey(i) == <<"d", "e", "t", "a", "i", "l", "_">> \o NatToStr(i)

\* the repair of a details list into a mapping; lines 715-728
RECURSIVE RepairDetails(_, _, _)
RepairDetails(det, i, new_det) ==
    IF i > Len(det) THEN new_det
    ELSE RepairDetails(det, i + 1,
             DictSet(new_det,
                     IF Truthy(det[i].id) THEN det[i].id ELSE DetailKey(i - 1),
                     MinutesDetail(det[i].title, det[i].content)))

\* MinutesResponse.details after the repair and the validation: <<>> for
\* None, else <<mapping>>
ValidatedDetails(details) ==
    IF details[1] = "none" THEN <<>>
    ELSE IF details[1] = "list" THEN <<RepairDetails(details[2], 1, <<>>)>>
    ELSE <<details[2]>>

\* the single-shot call answers a payload that validates; existing_details
\* is built from it (lines 746-763) and the backfill loop starts
SingleShotSucceeds(payload) ==
    /\ m_pc = "start"
    /\ m_requests' = Append(m_requests, SingleShotRequest("ok"))
    /\ minutes_data' =
         <<[payload EXCEPT !.details = ValidatedDetails(payload.details)]>>
    /\ existing_details' = IF minutes_data'[1].details = <<>> THEN <<>>
                           ELSE minutes_data'[1].details[1]
    /\ m_idx' = 0
    /\ m_pc' = "backfill"
    /\ UNCHANGED <<m_participants, transcript_text, result, m_error>>
    /\ UNCHANGED outsideMinutes

\* need_detail; lines 774-781
NeedDetail(details, mp_id) ==
    IF ~DictHas(details, mp_id) THEN TRUE
    ELSE Len(Strip(OrEmpty(DictGet(details, mp_id).content))) < DETAIL_MIN_CHARS

\* mp.time or "00:00"
TimeOrZero(t) == IF Truthy(t) THEN t ELSE <<"0", "0", ":", "0", "0">>

\* start_sec of topic i (counted from 1)
StartSec(mps, i) == time_to_sec(TimeOrZero(mps[i].time))

\* next_sec of topic i; lines 770-772
NextSec(mps, i, last_sec) ==
    IF i < Len(mps)
    THEN MaxOf2(StartSec(mps, i) + 1, time_to_sec(TimeOrZero(mps[i + 1].time)))
    ELSE last_sec

FALLBACK_LINES == 300

\* segment_text; lines 784-787
SegmentOr(segment, lines) ==
    IF Strip(segment) = <<>>
    THEN JoinNl(SubSeq(lines, 1, MinOf2(FALLBACK_LINES, Len(lines))))
    ELSE segment

SegmentText(mps, i, lines) ==
    SegmentOr(extract_segment_lines(lines, StartSec(mps, i),
                                    NextSec(mps, i, _last_ts_seconds(lines))),
              lines)

DetailRequest(mps, i, lines, ok) ==
    [kind |-> "detail",
     outcome |-> IF ok THEN "ok" ELSE "call",
     topic |-> mps[i].id,
     title |-> OrEmpty(mps[i].title),
     segment |-> SegmentText(mps, i, lines)]

\* the topic's detail is long enough: no request
BackfillSkip ==
    /\ m_pc = "backfill"
    /\ m_idx < Len(minutes_data[1].main_points)
    /\ ~NeedDetail(existing_details, minutes_data[1].main_points[m_idx + 1].id)
    /\ m_idx' = m_idx + 1
    /\ UNCHANGED <<m_pc, m_participants, transcript_text, minutes_data,
                   existing_details, m_requests, result, m_error>>
    /\ UNCHANGED outsideMinutes

\* mutant: a failed backfill request ends the loop
BackfillFails_stops ==
    /\ m_pc = "backfill"
    /\ m_idx < Len(minutes_data[1].main_points)
    /\ NeedDetail(existing_details, minutes_data[1].main_points[m_idx + 1].id)
    /\ m_requests' = Append(m_requests,
                            DetailRequest(minutes_data[1].main_points, m_idx + 1,
                                          SplitLines(transcript_text), FALSE))
    /\ m_idx' = Len(minutes_data[1].main_points)
    /\ UNCHANGED <<m_pc, m_participants, transcript_text, minutes_data,
                   existing_details, result, m_error>>
    /\ UNCHANGED outsideMinutes

\* the backfill request raises: the detail is left as it is; lines 803-805
BackfillFails ==
    /\ m_pc = "backfill"
    /\ m_idx < Len(minutes_data[1].main_points)
    /\ NeedDetail(existing_details, minutes_data[1].main_points[m_idx + 1].id)
    /\ m_requests' = Append(m_requests,
                            DetailRequest(minutes_data[1].main_points, m_idx + 1,
                                          SplitLines(transcript_text), FALSE))
    /\ m_idx' = m_idx + 1
    /\ UNCHANGED <<m_pc, m_participants, transcript_text, minutes_data,
                   existing_details, result, m_error>>
    /\ UNCHANGED outsideMinutes

\* "- " in s
HasBulletMark(s) == \E i \in 1..(Len(s) - 1) : s[i] = "-" /\ s[i + 1] = " "

\* s.replace("\n", "\n- ")
BulletLines(lines) ==
    [i \in 1..Len(lines) |-> IF i = 1 THEN lines[i] ELSE <<"-", " ">> \o lines[i]]

BulletEachLine(s) == JoinNl(BulletLines(SplitNl(s)))

\* the guard of lines 796-797
ForceBullets(content) ==
    IF HasBulletMark(content) THEN content
    ELSE <<"-", " ">> \o BulletEachLine(content)

\* detail_content; lines 793-797
DetailContent(reply) == ForceBullets(_limit_bullets(Strip(OrEmpty(reply)), MAX_BULLETS))

\* the backfill request answers: the detail is replaced; lines 788-802
BackfillSucceeds(reply) ==
    /\ m_pc = "backfill"
    /\ m_idx < Len(minutes_data[1].main_points)
    /\ NeedDetail(existing_details, minutes_data[1].main_points[m_idx + 1].id)
    /\ m_requests' = Append(m_requests,
                            DetailRequest(minutes_data[1].main_points, m_idx + 1,
                                          SplitLines(transcript_text), TRUE))
    /\ existing_details' =
         DictSet(existing_details, minutes_data[1].main_points[m_idx + 1].id,
                 MinutesDetail(OrEmpty(minutes_data[1].main_points[m_idx + 1].title),
                               DetailContent(reply)))
    /\ m_idx' = m_idx + 1
    /\ UNCHANGED <<m_pc, m_participants, transcript_text, minutes_data,
                   result, m_error>>
    /\ UNCHANGED outsideMinutes

\* lines 810-813
SanitizedDetails(details, aliases) ==
    [i \in 1..Len(details) |->
        [k |-> details[i].k,
         v |-> MinutesDetail(_sanitize_text(details[i].v.title, aliases),
                             _limit_bullets(_sanitize_text(details[i].v.content, aliases),
                                            MAX_BULLETS))]]

\* lines 818-820
SanitizedTasks(tasks, aliases) ==
    [i \in 1..Len(tasks) |->
        ActionItem(_sanitize_text(tasks[i].task, aliases),
                   _sanitize_text(tasks[i].description, aliases))]

\* result; lines 808-820.  details is <<>> when the key is absent (None is
\* excluded by model_dump), else <<mapping>>
MinutesResult(data, details, aliases) ==
    [objective |-> IF Truthy(data.objective)
                   THEN _sanitize_text(data.objective, aliases)
                   ELSE data.objective,
     metadata |-> data.metadata,
     main_points |-> data.main_points,
     details |-> IF details # <<>> THEN <<SanitizedDetails(details, aliases)>>
                 ELSE data.details,
     tasks_and_objectives |-> SanitizedTasks(data.tasks_and_objectives, aliases)]

\* the loop is over: the document is sanitized and returned
ReturnMinutes ==
    /\ m_pc = "backfill"
    /\ m_idx = Len(minutes_data[1].main_points)
    /\ result' = <<MinutesResult(minutes_data[1], existing_details,
                                 participant_aliases(m_participants))>>
    /\ m_pc' = "returned"
    /\ UNCHANGED <<m_participants, transcript_text, minutes_data,
                   existing_details, m_idx, m_requests, m_error>>
    /\ UNCHANGED outsideMinutes

NextMinutes ==
    \/ MinutesClientFails
    \/ \E failure \in SingleShotFailures : SingleShotFails(failure)
    \/ \E payload \in MinutesPayloads : SingleShotSucceeds(payload)
    \/ BackfillSkip
    \/ BackfillFails
    \/ \E reply \in BackfillReplies : BackfillSucceeds(reply)
    \/ ReturnMinutes

\* ------------------------------------------------------------------------
\* direct_summarize_transcript(): concurrent requests of the Flask server,
\* each running gpt() on its own transcript and reading resumen.json back
\* ------------------------------------------------------------------------
Handlers == 1..MaxHandlers

\* the document gpt() writes for the transcript of request r
SummaryOf(r) ==
    FinalDocument(FinalMetadata(<<>>, <<>>),
                  <<Topic(Id_p, <<"T">> \o NatToStr(r), T_05_00)>>,
                  <<>>, <<>>)

\* values of reuniones[unique_id].resumen: the "" of line 1018, or a JSON
\* text whose value is {} (<<>>) or a document (<<document>>)
BlankResumen == <<"blank">>

JsonDumps(value) == <<"json", value>>

HandlersIdle ==
    /\ h_pc = [r \in Handlers |-> "idle"]
    /\ resumen_data = [r \in Handlers |-> <<>>]
    /\ db_resumen = [r \in Handlers |-> <<"no_record">>]

\* the record is created and the transcript written to gpt_input_<id>.txt;
\* lines 1014-1023
HandlerBegins(r) ==
    /\ h_pc[r] = "idle"
    /\ db_resumen' = [db_resumen EXCEPT ![r] = BlankResumen]
    /\ h_pc' = [h_pc EXCEPT ![r] = "gpt"]
    /\ UNCHANGED <<resumen_data, resumen_json>>
    /\ UNCHANGED outsideHandlers

\* gpt() raises (no API key, or no topic survives): the handler answers 500
HandlerGptRaises(r) ==
    /\ h_pc[r] = "gpt"
    /\ h_pc' = [h_pc EXCEPT ![r] = "failed"]
    /\ UNCHANGED <<resumen_data, db_resumen, resumen_json>>
    /\ UNCHANGED outsideHandlers

\* gpt() writes its document to resumen.json; llamada_gpt.py lines 569-570
HandlerGptWrites(r) ==
    /\ h_pc[r] = "gpt"
    /\ resumen_json' = <<SummaryOf(r)>>
    /\ h_pc' = [h_pc EXCEPT ![r] = "load"]
    /\ UNCHANGED <<resumen_data, db_resumen>>
    /\ UNCHANGED outsideHandlers

\* cargar_json: the content of the file, or {} when it does not exist
cargar_json(file) == file

\* resumen_data = cargar_json('resumen.json', {}); line 1027
HandlerLoads(r) ==
    /\ h_pc[r] = "load"
    /\ resumen_data' = [resumen_data EXCEPT ![r] = cargar_json(resumen_json)]
    /\ h_pc' = [h_pc EXCEPT ![r] = "exists"]
    /\ UNCHANGED <<db_resumen, resumen_json>>
    /\ UNCHANGED outsideHandlers

\* os.path.exists('resumen.json'); line 1028
HandlerChecksExists(r) ==
    /\ h_pc[r] = "exists"
    /\ h_pc' = [h_pc EXCEPT ![r] = IF resumen_json # <<>> THEN "remove" ELSE "update"]
    /\ UNCHANGED <<resumen_data, db_resumen, resumen_json>>
    /\ UNCHANGED outsideHandlers

\* os.remove('resumen.json'); FileNotFoundError when the file is gone, which
\* the except of line 1033 turns into a 500 answer
HandlerRemoves(r) ==
    /\ h_pc[r] = "remove"
    /\ IF resumen_json # <<>>
       THEN /\ resumen_json' = <<>>
            /\ h_pc' = [h_pc EXCEPT ![r] = "update"]
       ELSE /\ h_pc' = [h_pc EXCEPT ![r] = "failed"]
            /\ UNCHANGED resumen_json
    /\ UNCHANGED <<resumen_data, db_resumen>>
    /\ UNCHANGED outsideHandlers

\* db.reuniones.update_one(... "resumen": json.dumps(resumen_data)); line 1030
HandlerUpdatesDb(r) ==
    /\ h_pc[r] = "update"
    /\ db_resumen' = [db_resumen EXCEPT ![r] = JsonDumps(resumen_data[r])]
    /\ h_pc' = [h_pc EXCEPT ![r] = "done"]
    /\ UNCHANGED <<resumen_data, resumen_json>>
    /\ UNCHANGED outsideHandlers

NextHandlers ==
    \E r \in Handlers :
        \/ HandlerBegins(r)
        \/ HandlerGptRaises(r)
        \/ HandlerGptWrites(r)
        \/ HandlerLoads(r)
        \/ HandlerChecksExists(r)
        \/ HandlerRemoves(r)
        \/ HandlerUpdatesDb(r)

\* ------------------------------------------------------------------------
\* Specifications
\* ------------------------------------------------------------------------
vars == <<gptVars, minutesVars, handlerVars, callVars>>

MinutesIdle ==
    /\ InitMinutesVars
    /\ m_participants = <<>>
    /\ transcript_text = <<>>

\* one invocation of gpt()
Init == InitGpt /\ MinutesIdle /\ HandlersIdle /\ CallIdle

Next == NextGpt

Spec == Init /\ [][Next]_vars

\* one invocation of generate_minutes()
InitMinutes ==
    /\ InitGpt
    /\ HandlersIdle
    /\ CallIdle
    /\ InitMinutesVars
    /\ m_participants \in MinutesParticipantInputs
    /\ transcript_text \in TranscriptInputs

SpecMinutes == InitMinutes /\ [][NextMinutes]_vars

\* the handlers of concurrent requests
InitHandlers == InitGpt /\ MinutesIdle /\ HandlersIdle /\ CallIdle

SpecHandlers == InitHandlers /\ [][NextHandlers]_vars

\* ------------------------------------------------------------------------
\* Calls of _merge_content
\* ------------------------------------------------------------------------
\* the strings of at most n characters of chars
StringsOver(chars, n) == UNION {[1..k -> chars] : k \in 0..n}

ContentChars == {"-", " ", "x", "\n"}

ContentInputs == StringsOver(ContentChars, MaxContentLen)

\* _merge_content(base, new) with new the same content, or another one
InitMergeContent ==
    /\ InitGpt /\ MinutesIdle /\ HandlersIdle
    /\ \E base \in ContentInputs :
           \E new \in {base, Line_x, Line_y} : fn_args = <<base, new>>
    /\ fn_ret = <<>>

Call_merge_content ==
    /\ fn_ret = <<>>
    /\ fn_ret' = <<_merge_content(fn_args[1], fn_args[2])>>
    /\ UNCHANGED fn_args
    /\ UNCHANGED outsideCall

\* The fragment loop on fragments whose topics are all new: the n-th topic
\* accepted has no id, no time and a title of its own
FreshTopic(n) == Topic(<<>>, <<"T">> \o NatToStr(n), None)

MergeFreshTopic ==
    MergeOne(FreshTopic(Len(global_main_points) + Len(filtered_main_points) + 1),
             MaxContextTopics)

NextRequests ==
    \/ \E n \in 0..MaxFragments : ReadTranscript(n)
    \/ RequestFails
    \/ \E details \in DetailMaps : RequestSucceeds(details)
    \/ MergeFreshTopic
    \/ ApplyMerges

SpecRequests == Init /\ [][NextRequests]_vars

\* Calls of _dedupe_main_points_and_details on the main points the loop can
\* leave: distinct ids, distinct (title, time) keys, and either no detail or
\* one detail per topic
ReconcileTopics ==
    {Topic(id, title, time) : id \in {<<"p">>, <<"P">>, <<"a">>},
                              title \in {Title_A, Title_a_, <<>>, <<"!">>},
                              time \in {None, T_05_00}}

ReconcileInputs ==
    {mps \in UNION {[1..k -> ReconcileTopics] : k \in 0..MaxTopics} :
        \A i, j \in 1..Len(mps) :
            i # j => /\ mps[i].id # mps[j].id
                     /\ mp_key(mps[i]) # mp_key(mps[j])}

DetailsFor(mps) == [i \in 1..Len(mps) |-> [k |-> mps[i].id, v |-> i]]

HeapFor(mps) == [i \in 1..Len(mps) |-> Detail(mps[i].title, Line_x)]

InitReconcile ==
    /\ InitGpt /\ MinutesIdle /\ HandlersIdle
    /\ \E mps \in ReconcileInputs :
           \/ fn_args = <<mps, <<>>, <<>> >>
           \/ fn_args = <<mps, DetailsFor(mps), HeapFor(mps)>>
    /\ fn_ret = <<>>

Call_dedupe_main_points_and_details ==
    /\ fn_ret = <<>>
    /\ fn_ret' = <<_dedupe_main_points_and_details(fn_args[1], fn_args[2], fn_args[3])>>
    /\ UNCHANGED fn_args
    /\ UNCHANGED outsideCall

SpecReconcile == InitReconcile /\ [][Call_dedupe_main_points_and_details]_vars

\* gpt() up to the bullet pass, on payloads whose topics have three different
\* titles and may repeat an id
BulletTopics ==
    {Topic(Id_p_1, Title_A, None), Topic(Id_p, Title_B, T_05_00),
     Topic(Id_p, <<"C">>, T_05_00)}

NextBullets ==
    \/ \E n \in 0..MaxFragments : ReadTranscript(n)
    \/ RequestFails
    \/ \E details \in DetailMaps : RequestSucceeds(details)
    \/ \E incoming \in BulletTopics : MergeTopic(incoming)
    \/ ApplyMerges
    \/ Reconcile
    \/ DedupeBullets

SpecBullets == Init /\ [][NextBullets]_vars

SpecMergeContent == InitMergeContent /\ [][Call_merge_content]_vars

\* The instruction for the first fragment, on transcripts built by
\* _build_transcript_with_timestamps from Whisper segments
Pad2(n) == IF n < 10 THEN <<"0">> \o NatToStr(n) ELSE NatToStr(n)

\* "[MM:SS] text\n" for each segment; processing.py lines 15-17
RECURSIVE _build_transcript_with_timestamps(_)
_build_transcript_with_timestamps(segments) ==
    IF segments = <<>> THEN <<>>
    ELSE <<"[">> \o Pad2(Head(segments).start \div 60) \o <<":">>
             \o Pad2(Head(segments).start % 60) \o <<"]", " ">>
             \o Strip(Head(segments).text) \o <<"\n">>
             \o _build_transcript_with_timestamps(Tail(segments))

\* s[-5:]
Last5(s) == SubSeq(s, MaxOf2(1, Len(s) - 4), Len(s))

\* the numbers and the timestamp written into dynamic_length_prompt;
\* llamada_gpt.py lines 203-209
dynamic_length_prompt(text) ==
    [minutes |-> time_to_sec(Last5(text)) \div 60,
     timestamp |-> Last5(text),
     minimum_points |-> MaxOf2(3, time_to_sec(Last5(text)) \div 600 + 1)]

SegmentStarts == {5, 65, 1805}

SegmentTexts == {<<"a">>, <<"b", ".">>, <<"a", " ", "3", "1", ":", "3", "0">>}

SegmentInputs ==
    {segs \in UNION {[1..k -> [start : SegmentStarts, text : SegmentTexts]] :
                        k \in 0..MaxLines} :
        \A i \in 1..(Len(segs) - 1) : segs[i].start <= segs[i + 1].start}

InitPrompt ==
    /\ InitGpt /\ MinutesIdle /\ HandlersIdle
    /\ \E segments \in SegmentInputs : fn_args = <<segments>>
    /\ fn_ret = <<>>

Call_dynamic_length_prompt ==
    /\ fn_ret = <<>>
    /\ fn_ret' = <<dynamic_length_prompt(_build_transcript_with_timestamps(fn_args[1]))>>
    /\ UNCHANGED fn_args
    /\ UNCHANGED outsideCall

SpecPrompt == InitPrompt /\ [][Call_dynamic_length_prompt]_vars

\* Calls of extract_segment_lines on a few lines and windows
SegmentLineInputs ==
    {<<"[", "0", "0", ":", "0", "5", "]", " ", "a">>,
     <<"[", "0", "1", ":", "0", "0", "]", " ", "b">>,
     <<"[", "1", ":", "0", "5", "]", " ", "e">>,
     <<"[", "0", "1", ":", "0", "0", " ", "f">>,
     <<" ", "[", "0", "0", ":", "0", "5", "]", " ", "g">>,
     <<"c">>, <<>>}

SegmentBounds == {0, 5, 60, 61}

InitSegment ==
    /\ InitGpt /\ MinutesIdle /\ HandlersIdle
    /\ \E lines \in UNION {[1..k -> SegmentLineInputs] : k \in 0..MaxLines} :
           \E start_sec \in SegmentBounds :
               \E end_sec \in SegmentBounds :
                   fn_args = <<lines, start_sec, end_sec>>
    /\ fn_ret = <<>>

Call_extract_segment_lines ==
    /\ fn_ret = <<>>
    /\ fn_ret' = <<extract_segment_lines(fn_args[1], fn_args[2], fn_args[3])>>
    /\ UNCHANGED fn_args
    /\ UNCHANGED outsideCall

SpecSegment == InitSegment /\ [][Call_extract_segment_lines]_vars

\* Calls of _normalize_text on short titles
TitleChars == {"A", " ", "!"}

TitleInputs == StringsOver(TitleChars, MaxContentLen)

InitNormalize ==
    /\ InitGpt /\ MinutesIdle /\ HandlersIdle
    /\ \E title \in TitleInputs : fn_args = <<title>>
    /\ fn_ret = <<>>

Call_normalize_text ==
    /\ fn_ret = <<>>
    /\ fn_ret' = <<_normalize_text(fn_args[1])>>
    /\ UNCHANGED fn_args
    /\ UNCHANGED outsideCall

SpecNormalize == InitNormalize /\ [][Call_normalize_text]_vars

\* Calls of _merge_detail_items(target, source) on two details that differ in
\* their key_timestamps
KeyTimestamp(description, time) == [description |-> description, time |-> time]

KeyTimestampInputs ==
    {KeyTimestamp(<<"d">>, T_05_00), KeyTimestamp(<<"D", ".">>, T_05_00 \o <<" ">>),
     KeyTimestamp(<<"d">>, None), KeyTimestamp(<<"e">>, T_05_00)}

TimestampLists == UNION {[1..k -> KeyTimestampInputs] : k \in 0..MaxTimestamps}

InitMergeDetail ==
    /\ InitGpt /\ MinutesIdle /\ HandlersIdle
    /\ \E target_kts \in TimestampLists :
           \E source_kts \in TimestampLists :
               fn_args = <<[Detail_x EXCEPT !.key_timestamps = target_kts],
                           [Detail_xy EXCEPT !.key_timestamps = source_kts]>>
    /\ fn_ret = <<>>

\* target and source are the objects 1 and 2 of the heap
Call_merge_detail_items ==
    /\ fn_ret = <<>>
    /\ fn_ret' = <<_merge_detail_items(fn_args, 1, 2)>>
    /\ UNCHANGED fn_args
    /\ UNCHANGED outsideCall

SpecMergeDetail == InitMergeDetail /\ [][Call_merge_detail_items]_vars

\* ------------------------------------------------------------------------
\* Calls of dividir_texto
\* ------------------------------------------------------------------------
\* str.split(): the maximal runs of non-whitespace characters
PySplit(s) == IF Strip(s) = <<>> THEN <<>> ELSE SplitWs(Strip(s))

\* mutant: the length already accumulated is not counted
Fits_word_only(fragmento_actual, palabra, tamano_max) ==
    Len(palabra) + 1 <= tamano_max

\* "len(fragmento_actual) + len(palabra) + 1 <= tamano_max"; line 66
Fits(fragmento_actual, palabra, tamano_max) ==
    Len(fragmento_actual) + Len(palabra) + 1 <= tamano_max

\* "for palabra in palabras" and the final append; lines 65-72
RECURSIVE DividirLoop(_, _, _, _)
DividirLoop(palabras, fragmentos, fragmento_actual, tamano_max) ==
    IF palabras = <<>>
    THEN IF fragmento_actual # <<>>
         THEN Append(fragmentos, Strip(fragmento_actual)) ELSE fragmentos
    ELSE IF Fits(fragmento_actual, Head(palabras), tamano_max)
         THEN DividirLoop(Tail(palabras), fragmentos,
                          fragmento_actual \o Head(palabras) \o <<" ">>, tamano_max)
         ELSE DividirLoop(Tail(palabras),
                          Append(fragmentos, Strip(fragmento_actual)),
                          Head(palabras) \o <<" ">>, tamano_max)

dividir_texto(texto, tamano_max) ==
    DividirLoop(PySplit(texto), <<>>, <<>>, tamano_max)

TextChars == {"a", " ", "\n"}

TextInputs == StringsOver(TextChars, MaxTextLen)

InitDividir ==
    /\ InitGpt /\ MinutesIdle /\ HandlersIdle
    /\ \E texto \in TextInputs :
           \E tamano_max \in 0..MaxTamano : fn_args = <<texto, tamano_max>>
    /\ fn_ret = <<>>

Call_dividir_texto ==
    /\ fn_ret = <<>>
    /\ fn_ret' = <<dividir_texto(fn_args[1], fn_args[2])>>
    /\ UNCHANGED fn_args
    /\ UNCHANGED outsideCall

SpecDividir == InitDividir /\ [][Call_dividir_texto]_vars

\* ------------------------------------------------------------------------
\* Properties of the chunked path
\* ------------------------------------------------------------------------
IdsOf(mps) == {mps[i].id : i \in 1..Len(mps)}

DistinctIds(mps) ==
    \A i, j \in 1..Len(mps) : i # j => mps[i].id # mps[j].id

Accepted == global_main_points \o filtered_main_points

Id_p_2 == <<"p", "_", "2">>

\* C1: the topic ids of main_points are pairwise distinct after every merge
\* step (topics accepted so far included) and in the final document.
C1_UniqueTopicIds ==
    /\ DistinctIds(Accepted)
    /\ resumen_json # <<>> => DistinctIds(resumen_json[1].main_points)

\* a document of two topics was written after three topics asked for ids
\* that collided (p, p_1 and p_2 were all handed out)
C1_Witness ==
    /\ pc = "returned"
    /\ Len(resumen_json[1].main_points) = 2
    /\ {Id_p, Id_p_1, Id_p_2} \subseteq used_ids

\* C2: in the final document every key of detailed_summary is the id of
\* exactly one topic of main_points, so no detail of a topic that was merged
\* away is left.
C2_DetailKeysOwned ==
    pc = "returned" =>
        LET doc == resumen_json[1]
        IN  \A e \in Range(doc.detailed_summary) :
                Cardinality({i \in 1..Len(doc.main_points) :
                                 doc.main_points[i].id = e.k}) = 1

\* the final document holds the detail titled A with the lines of Detail_xy
\* merged in: a duplicate topic with its own detail entry was merged away
C2_Witness ==
    /\ pc = "returned"
    /\ \E e \in Range(resumen_json[1].detailed_summary) :
           /\ e.v.title = Title_A
           /\ e.v.content = Line_x \o <<"\n">> \o Line_y
    /\ \E id \in used_ids : id \notin IdsOf(resumen_json[1].main_points)

\* C3: with a readable transcript, when no topic survives gpt() raises and
\* writes no document; a document it writes has a non-empty main_points.
C3_FatalOnEmpty ==
    /\ pc = "returned" =>
           resumen_json # <<>> /\ resumen_json[1].main_points # <<>>
    /\ pc = "raised" => resumen_json = <<>>
    /\ (pc \in {"returned", "raised"} /\ global_main_points = <<>>) =>
           pc = "raised" /\ error # None

\* every fragment of a two-fragment transcript failed and gpt() raised
C3_Witness ==
    /\ pc = "raised"
    /\ n_chunks >= 2
    /\ Len(requests) = n_chunks
    /\ \A i \in 1..Len(requests) : ~requests[i].parsed
    /\ resumen_json = <<>>

\* C5: a step in which a fragment's request fails leaves the merge state as
\* it was, is the only request made for that fragment, and moves on to the
\* next fragment.
C5_FailedFragmentSkipped ==
    [][ (/\ Len(requests') = Len(requests) + 1
         /\ ~requests'[Len(requests')].parsed)
        => /\ UNCHANGED mergeState
           /\ Cardinality({i \in 1..Len(requests') : requests'[i].idx = idx}) = 1
           /\ idx' = idx + 1
           /\ pc' = "loop" ]_vars

\* the second fragment failed after the first one had contributed topics,
\* and the loop went on
C5_Witness ==
    /\ pc = "loop"
    /\ Len(requests) = 2
    /\ requests[1].parsed
    /\ ~requests[2].parsed
    /\ idx = 2
    /\ global_main_points # <<>>
    /\ global_detailed_summary # <<>>

\* the details attached so far: those merged, then those of the fragment
\* being merged
AllDetails == global_detailed_summary \o remapped_details

\* mps[i] is still the topic that sat at position f[i] of old
SameTopics(mps, old, f) ==
    /\ \A i \in 1..Len(mps) :
           mps[i].id = old[f[i]].id /\ mps[i].title = old[f[i]].title
    /\ \A i, j \in 1..Len(mps) : i < j => f[i] < f[j]

\* C11: an accepted topic keeps its id: a step other than the reconciliation
\* pass leaves every accepted topic at its position with its id and leaves
\* its detail under that id; the reconciliation pass only removes topics, its
\* survivors carry the ids and titles they had, in the same order, and a
\* survivor that had a detail still has that detail object under its id.
C11_StableIds ==
    [][ IF pc = "loop" /\ pc' = "bullets"
        THEN /\ \E f \in [1..Len(global_main_points') -> 1..Len(global_main_points)] :
                    SameTopics(global_main_points', global_main_points, f)
             /\ \A i \in 1..Len(global_main_points') :
                    LET id == global_main_points'[i].id
                    IN  DictHas(global_detailed_summary, id)
                            => /\ DictHas(global_detailed_summary', id)
                               /\ DictGet(global_detailed_summary', id)
                                      = DictGet(global_detailed_summary, id)
        ELSE /\ Len(Accepted') >= Len(Accepted)
             /\ \A i \in 1..Len(Accepted) :
                    /\ Accepted'[i].id = Accepted[i].id
                    /\ DictHas(AllDetails, Accepted[i].id)
                           => /\ DictHas(AllDetails', Accepted[i].id)
                              /\ DictGet(AllDetails', Accepted[i].id)
                                     = DictGet(AllDetails, Accepted[i].id) ]_vars

\* a topic renamed to p_1 when it was accepted still has that id and its
\* detail after a second fragment was merged and the reconciliation pass
\* removed another topic
C11_Witness ==
    /\ pc = "finalize"
    /\ Len(requests) = 2
    /\ \A i \in 1..Len(requests) : requests[i].parsed
    /\ Id_p_1 \in IdsOf(global_main_points)
    /\ DictHas(global_detailed_summary, Id_p_1)
    /\ Cardinality(used_ids) > Len(global_main_points)

\* when the single-shot call failed, the minimal document is returned and no
\* backfill request was issued
MinutesFailureDegrades ==
    (m_pc = "returned" /\ minutes_data = <<>>) =>
        /\ result = <<MinimalMinutes(m_participants)>>
        /\ \A i \in 1..Len(m_requests) : m_requests[i].kind # "detail"

\* C4: generate_minutes never ends with an exception, and when the
\* single-shot call fails or its payload cannot be parsed or validated it
\* returns the minimal document (objective "", no topics, no details, no
\* tasks, default title, the supplied participants) without any backfill
\* request.
C4_MinutesNeverRaises ==
    /\ m_pc # "raised"
    /\ m_error = None
    /\ MinutesFailureDegrades

\* C6: with concurrent requests, the summary stored for a request that
\* completed is the document gpt() generated from that request's own
\* transcript.
C6_OwnSummaryStored ==
    \A r \in Handlers :
        h_pc[r] = "done" => db_resumen[r] = JsonDumps(<<SummaryOf(r)>>)

TopicPairKey(point) == <<_normalize_text(point.title), Strip(OrEmpty(point.time))>>

\* C7: during the incremental phase no two accepted topics have the same
\* (normalized title, trimmed time) pair.
C7_NoDuplicateKey ==
    pc \in {"loop", "merge"} =>
        \A i, j \in 1..Len(Accepted) :
            i # j => TopicPairKey(Accepted[i]) # TopicPairKey(Accepted[j])

\* the topic just visited was dropped: it is not in the lists, and an
\* accepted topic with another spelling of the title has its key
C7_Witness ==
    /\ pc = "merge"
    /\ mp # Unbound
    /\ mp \notin Range(Accepted)
    /\ \E i \in 1..Len(Accepted) :
           /\ TopicPairKey(Accepted[i]) = TopicPairKey(mp)
           /\ Accepted[i].title # mp.title

Suffixed(base, k) == base \o <<"_">> \o NatToStr(k)

\* C8: a step that accepts an incoming topic whose id is already in use
\* gives it the id base_k for the smallest k >= 1 with base_k not in use,
\* leaves the topics accepted earlier as they are, and stores the detail the
\* fragment carries under the topic's original id under the topic's new id.
C8_SmallestFreeSuffix ==
    [][ (/\ pc = "merge"
         /\ Len(filtered_main_points') = Len(filtered_main_points) + 1
         /\ original_id' # <<>>
         /\ original_id' \in IdsOf(Accepted))
        => /\ \E k \in 1..(Len(Accepted) + 1) :
                  /\ mp'.id = Suffixed(original_id', k)
                  /\ mp'.id \notin IdsOf(Accepted)
                  /\ \A j \in 1..(k - 1) :
                         Suffixed(original_id', j) \in IdsOf(Accepted)
           /\ filtered_main_points' = Append(filtered_main_points, mp')
           /\ global_main_points' = global_main_points
           /\ DictHas(incoming_details, original_id')
                  => /\ DictHas(remapped_details', mp'.id)
                     /\ DictGet(remapped_details', mp'.id)
                            = DictGet(incoming_details, original_id') ]_vars

\* a topic that came with id p while p and p_1 were in use was accepted as
\* p_2 and its detail is kept under p_2
C8_Witness ==
    /\ pc = "merge"
    /\ original_id = Id_p
    /\ mp.id = Id_p_2
    /\ mp \in Range(filtered_main_points)
    /\ {Id_p, Id_p_1} \subseteq IdsOf(Accepted)
    /\ DictHas(remapped_details, Id_p_2)

\* C9: the reconciliation pass leaves, for every signature, a single topic,
\* whose time is the numerically earliest time of the topics that had that
\* signature; a topic without a time never replaces a time.
C9_EarliestTimeWins ==
    [][ (pc = "loop" /\ pc' = "bullets")
        => \A i \in 1..Len(global_main_points) :
               LET sig == Signature(global_main_points[i])
                   group == {j \in 1..Len(global_main_points) :
                                 Signature(global_main_points[j]) = sig}
                   times == {global_main_points[j].time : j \in group}
                   kept == {k \in 1..Len(global_main_points') :
                                Signature(global_main_points'[k]) = sig}
               IN  /\ Cardinality(kept) = 1
                   /\ \A k \in kept :
                          LET t == global_main_points'[k].time
                          IN  /\ t \in times
                              /\ _time_to_seconds(t)
                                   = MinOf({_time_to_seconds(u) : u \in times})
                              /\ (\E u \in times : Truthy(u)) => Truthy(t) ]_vars

\* after the pass the topic first seen as "A" carries the time 05:00, which
\* only a later topic of its group ("a " at 05:00) had
C9_Witness ==
    /\ pc = "bullets"
    /\ \E i \in 1..Len(global_main_points) :
           /\ global_main_points[i].title = Title_A
           /\ global_main_points[i].time = T_05_00

\* C10: after the reconciliation pass every topic of main_points has a
\* detail entry under its id.
C10_EveryTopicHasDetail ==
    pc \in {"bullets", "finalize", "returned"} =>
        \A i \in 1..Len(global_main_points) :
            DictHas(global_detailed_summary, global_main_points[i].id)

\* ------------------------------------------------------------------------
\* Properties of _merge_content
\* ------------------------------------------------------------------------
\* c has no blank line and no line break at its end
NoBlankLine(c) == \A i \in 1..Len(SplitNl(c)) : Strip(SplitNl(c)[i]) # <<>>

\* _merge_content(c, c) has returned
SelfMerge == fn_ret # <<>> /\ fn_args[1] = fn_args[2]

RECURSIVE JoinSp(_)
JoinSp(parts) ==
    IF parts = <<>> THEN <<>>
    ELSE IF Len(parts) = 1 THEN parts[1]
    ELSE parts[1] \o <<" ">> \o JoinSp(Tail(parts))

LongestWord(texto) ==
    IF PySplit(texto) = <<>> THEN 0
    ELSE CHOOSE n \in {Len(w) : w \in Range(PySplit(texto))} :
             \A w \in Range(PySplit(texto)) : Len(w) <= n

\* C13: when the maximum size is at least the longest word's length, the
\* fragments of dividir_texto joined by single spaces are the words of the
\* text joined by single spaces, and an empty text gives no fragment.
C13_ChunkRoundTrip ==
    (fn_ret # <<>> /\ fn_args[2] >= LongestWord(fn_args[1])) =>
        /\ JoinSp(fn_ret[1]) = JoinSp(PySplit(fn_args[1]))
        /\ fn_args[1] = <<>> => fn_ret[1] = <<>>

IsSingleWord(f) == f # <<>> /\ \A i \in 1..Len(f) : f[i] \notin Whitespace

\* C14: every fragment of dividir_texto is at most tamano_max long, unless
\* it is a single word that is itself longer than tamano_max.
C14_FragmentSize ==
    fn_ret # <<>> =>
        \A i \in 1..Len(fn_ret[1]) :
            \/ Len(fn_ret[1][i]) <= fn_args[2]
            \/ IsSingleWord(fn_ret[1][i])

\* a call returned a word within the limit and a single word over it
C14_Witness ==
    /\ fn_ret # <<>>
    /\ \E i \in 1..Len(fn_ret[1]) :
           fn_ret[1][i] # <<>> /\ Len(fn_ret[1][i]) <= fn_args[2]
    /\ \E i \in 1..Len(fn_ret[1]) :
           IsSingleWord(fn_ret[1][i]) /\ Len(fn_ret[1][i]) > fn_args[2]

\* ------------------------------------------------------------------------
\* Properties of the final document
\* ------------------------------------------------------------------------
\* the fragments whose request returned a validated result
ParsedFragments == {requests[i].idx : i \in {j \in 1..Len(requests) : requests[j].parsed}}

FirstParsed == CHOOSE i \in ParsedFragments : \A j \in ParsedFragments : i <= j

\* C15: the metadata of the final document is the metadata of the first
\* fragment that was parsed, whichever position that fragment has.
C15_FirstParsedMetadata ==
    (pc = "returned" /\ ParsedFragments # {}) =>
        resumen_json[1].metadata = MetadataOf(FirstParsed)

\* the action items of a written document
DocTasks(doc) ==
    IF "tasks_and_objectives" \in DOMAIN doc THEN doc.tasks_and_objectives ELSE <<>>

\* the action items of the parsed fragments, in fragment order
RECURSIVE PayloadTasks(_)
PayloadTasks(reqs) ==
    IF reqs = <<>> THEN <<>> ELSE Head(reqs).tasks \o PayloadTasks(Tail(reqs))

\* C16: the tasks_and_objectives of the final document are the action items
\* of all parsed fragments, concatenated in fragment order.
C16_TasksConcatenated ==
    pc = "returned" => DocTasks(resumen_json[1]) = PayloadTasks(requests)

\* ------------------------------------------------------------------------
\* Properties of the fragment requests
\* ------------------------------------------------------------------------
\* the titles of the last (at most five) topics of mps, in order
RecentTitles(mps) ==
    LET n == Len(mps)
        k == IF n < 5 THEN n ELSE 5
    IN  [j \in 1..k |-> mps[n - k + j].title]

\* C17: requests are issued one at a time in fragment order, each after the
\* fragment before it has been merged; the request for fragment 0 carries
\* the duration instruction and every later request the titles of the last
\* (at most five) topics accumulated so far, in accumulation order.
C17_RequestsInOrder ==
    [][ requests' # requests =>
          /\ pc = "loop"
          /\ filtered_main_points = <<>>
          /\ remapped_details = <<>>
          /\ requests' = Append(requests, requests'[Len(requests')])
          /\ LET r == requests'[Len(requests')]
             IN  /\ r.idx = Len(requests)
                 /\ r.first_chunk = (r.idx = 0)
                 /\ r.covered = IF r.idx = 0 THEN <<>>
                                 ELSE RecentTitles(global_main_points) ]_vars

\* a later request was issued when six topics had been accumulated
C17_Witness ==
    /\ Len(requests) = 2
    /\ requests[1].first_chunk
    /\ requests[2].idx = 1
    /\ Len(global_main_points) = 6
    /\ Len(requests[2].covered) = 5
    /\ requests[2].covered[1] = global_main_points[2].title

\* ------------------------------------------------------------------------
\* Properties of the detail attachment
\* ------------------------------------------------------------------------
\* C18: an accepted topic gets a detail under its final id exactly when the
\* fragment's detail mapping has an entry keyed by the topic's original id,
\* and that entry is the detail stored; a dropped duplicate attaches nothing.
C18_DetailByOriginalId ==
    [][ (pc = "merge" /\ mp' # mp) =>
          IF filtered_main_points' # filtered_main_points
          THEN /\ DictHas(remapped_details', mp'.id)
                      <=> DictHas(incoming_details, original_id')
               /\ DictHas(incoming_details, original_id')
                      => DictGet(remapped_details', mp'.id)
                             = DictGet(incoming_details, original_id')
          ELSE remapped_details' = remapped_details ]_vars

\* ------------------------------------------------------------------------
\* Properties of the reconciliation pass
\* ------------------------------------------------------------------------
\* the positions of the topics that are the first of their signature
FirstSeen(mps) ==
    {i \in 1..Len(mps) :
        \A j \in 1..(i - 1) : Signature(mps[j]) # Signature(mps[i])}

\* the k-th position of a set of positions
NthOf(S, k) == CHOOSE i \in S : Cardinality({j \in S : j < i}) = k - 1

\* C19: after the reconciliation pass no two topics have the same signature;
\* the survivors are the first-seen topics of each signature, with their
\* original id and title, in their original relative order.
C19_FirstSeenSurvive ==
    fn_ret # <<>> =>
        LET mps == fn_args[1]
            out == fn_ret[1].mps
        IN  /\ \A i, j \in 1..Len(out) :
                   i # j => Signature(out[i]) # Signature(out[j])
            /\ Len(out) = Cardinality(FirstSeen(mps))
            /\ \A k \in 1..Len(out) :
                   /\ out[k].id = mps[NthOf(FirstSeen(mps), k)].id
                   /\ out[k].title = mps[NthOf(FirstSeen(mps), k)].title

\* the pass met a duplicate by title after another topic and a duplicate by
\* lowercased id, and two topics survived
C19_Witness ==
    /\ fn_ret # <<>>
    /\ Len(fn_args[1]) = 3
    /\ Len(fn_ret[1].mps) = 2
    /\ FirstSeen(fn_args[1]) = {1, 2}
    /\ _normalize_text(fn_args[1][3].title) = <<>>
    /\ fn_args[1][3].id # fn_args[1][1].id

\* ------------------------------------------------------------------------
\* Properties of the cross-topic bullet pass
\* ------------------------------------------------------------------------
ContentLines(hp, ref) == NonBlank(SplitNl(hp[ref].content))

LineKeys(hp, ref) ==
    {BulletKey(Strip(ln)) : ln \in Range(ContentLines(hp, ref))}

\* the detail of the i-th topic of main_points, or NoRef
DetailRef(i) == RefGet(global_detailed_summary, global_main_points[i].id)

\* every line of the i-th topic repeats a line of a topic before it
AllDuplicates(i) ==
    LineKeys(heap, DetailRef(i)) \subseteq
        UNION {LineKeys(heap, DetailRef(j)) :
                   j \in {k \in 1..(i - 1) : DetailRef(k) # NoRef}}

\* C20: the bullet pass leaves at least one non-blank line in every detail
\* that had one, and a detail whose lines were all duplicates keeps its
\* first original line.
C20_BulletPassKeepsContent ==
    [][ (pc = "bullets" /\ pc' = "finalize") =>
          \A i \in 1..Len(global_main_points) :
              (DetailRef(i) # NoRef /\ ContentLines(heap, DetailRef(i)) # <<>>) =>
                  /\ ContentLines(heap', DetailRef(i)) # <<>>
                  /\ AllDuplicates(i) =>
                         heap'[DetailRef(i)].content
                             = ContentLines(heap, DetailRef(i))[1] ]_vars

\* the keys of the lines left in the details of the topics before the i-th
EarlierKeys(i) ==
    UNION {LineKeys(heap, DetailRef(j)) :
               j \in {k \in 1..(i - 1) : DetailRef(k) # NoRef}}

PairOf(kt) == <<Strip(OrEmpty(kt.time)), _normalize_text(OrEmpty(kt.description))>>

\* the entries of b whose pair occurs neither in a nor earlier in b
RECURSIVE NewEntries(_, _, _)
NewEntries(a, b, j) ==
    IF j > Len(b) THEN <<>>
    ELSE IF \/ \E i \in 1..Len(a) : PairOf(a[i]) = PairOf(b[j])
            \/ \E i \in 1..(j - 1) : PairOf(b[i]) = PairOf(b[j])
         THEN NewEntries(a, b, j + 1)
         ELSE <<b[j]>> \o NewEntries(a, b, j + 1)

\* C22: after merging detail B into detail A, A's key_timestamps are A's
\* entries in order followed by the entries of B whose pair did not occur
\* before, and no two entries of the result have the same pair.
C22_TimestampsUnion ==
    fn_ret # <<>> =>
        LET a == fn_args[1].key_timestamps
            b == fn_args[2].key_timestamps
            out == fn_ret[1].hp[fn_ret[1].ref].key_timestamps
        IN  /\ out = a \o NewEntries(a, b, 1)
            /\ \A i, j \in 1..Len(out) : i # j => PairOf(out[i]) # PairOf(out[j])

\* the first half of C22 alone: A's entries, then the new entries of B
TimestampsAppended ==
    fn_ret # <<>> =>
        fn_ret[1].hp[fn_ret[1].ref].key_timestamps
            = fn_args[1].key_timestamps
                \o NewEntries(fn_args[1].key_timestamps, fn_args[2].key_timestamps, 1)

\* ------------------------------------------------------------------------
\* Properties of _normalize_text
\* ------------------------------------------------------------------------
\* C23: the normalized form of a title is the title lowercased, with each
\* whitespace run collapsed to one space, the punctuation removed and the
\* result trimmed, in this order; it has no whitespace at either end.
C23_NormalizeOrder ==
    fn_ret # <<>> =>
        /\ fn_ret[1] = Strip(RemovePunct(CollapseWs(Lower(fn_args[1]))))
        /\ fn_ret[1] = Strip(fn_ret[1])

\* ------------------------------------------------------------------------
\* Properties of the backfill loop of generate_minutes
\* ------------------------------------------------------------------------
\* the detail mapping of a returned document
ResultDetails == IF result[1].details = <<>> THEN <<>> ELSE result[1].details[1]

\* the detail of topic id is missing or shorter than DETAIL_MIN_CHARS
MissingOrThin(details, id) ==
    IF ~DictHas(details, id) THEN TRUE
    ELSE Len(OrEmpty(DictGet(details, id).content)) < DETAIL_MIN_CHARS

\* the entries of details under the keys other than id are the same in after
OthersKept(details, after, id) ==
    \A i \in 1..Len(details) :
        details[i].k # id =>
            /\ DictHas(after, details[i].k)
            /\ DictGet(after, details[i].k) = details[i].v

\* C24: every topic whose detail is missing or thin gets one backfill
\* request; when the request fails the detail mapping is left as it was,
\* the loop goes on with the next topic, and the validated document is
\* returned once every topic has been visited.
C24_BackfillFailureIsolated ==
    [][ m_pc = "backfill" =>
          IF m_pc' = "backfill"
          THEN LET id == minutes_data[1].main_points[m_idx + 1].id
                   last == m_requests'[Len(m_requests')]
               IN  /\ m_idx' = m_idx + 1
                   /\ minutes_data' = minutes_data
                   /\ MissingOrThin(existing_details, id) =>
                          /\ m_requests' = Append(m_requests, last)
                          /\ last.kind = "detail" /\ last.topic = id
                   /\ (m_requests' # m_requests /\ last.outcome # "ok") =>
                          existing_details' = existing_details
                   /\ OthersKept(existing_details, existing_details', id)
          ELSE /\ m_pc' = "returned"
               /\ m_idx = Len(minutes_data[1].main_points)
               /\ m_error' = None
               /\ result'[1].main_points = minutes_data[1].main_points
               /\ result'[1].metadata = minutes_data[1].metadata ]_vars

\* a document was returned after the request for the first topic failed and
\* the request for the second answered
C24_Witness ==
    /\ m_pc = "returned"
    /\ Len(m_requests) = 3
    /\ m_requests[2].kind = "detail" /\ m_requests[2].outcome # "ok"
    /\ m_requests[2].topic = Id_m1
    /\ m_requests[3].kind = "detail" /\ m_requests[3].outcome = "ok"
    /\ ~DictHas(ResultDetails, Id_m1)
    /\ DictHas(ResultDetails, Id_m2)

\* the position of the topic with this id
TopicIndex(mps, id) == CHOOSE i \in 1..Len(mps) : mps[i].id = id

\* the timestamped lines with start_i <= t < start_{i+1}, or start_i <= t for
\* the last topic
WindowLines(mps, i, lines) ==
    SelectSeq(lines,
        LAMBDA ln : /\ HasTimestamp(ln)
                    /\ StartSec(mps, i) <= TimestampOf(ln)
                    /\ i < Len(mps) => TimestampOf(ln) < StartSec(mps, i + 1))

\* C25: the segment sent to backfill topic i is made of exactly the
\* timestamped lines with start_i <= t < start_{i+1}; the window of the last
\* topic runs to the end of the transcript, final timestamped line included.
C25_SegmentWindow ==
    \A k \in 1..Len(m_requests) :
        m_requests[k].kind = "detail" =>
            m_requests[k].segment =
                JoinNl(WindowLines(minutes_data[1].main_points,
                           TopicIndex(minutes_data[1].main_points, m_requests[k].topic),
                           SplitLines(transcript_text)))

\* ------------------------------------------------------------------------
\* Properties of extract_segment_lines
\* ------------------------------------------------------------------------
\* C26: extract_segment_lines returns, in order, exactly the lines that
\* begin with a well-formed [MM:SS] prefix whose time lies in
\* [start_sec, end_sec); a line without such a prefix is never returned.
C26_OnlyTimestampedLines ==
    fn_ret # <<>> =>
        fn_ret[1] = JoinNl(SelectSeq(fn_args[1],
                        LAMBDA ln : /\ HasTimestamp(ln)
                                    /\ fn_args[2] <= TimestampOf(ln)
                                    /\ TimestampOf(ln) < fn_args[3]))

\* ------------------------------------------------------------------------
\* Properties of the sanitization of generate_minutes
\* ------------------------------------------------------------------------
\* alias occurs in text as a whole word, whatever the case
OccursAsWord(text, alias) ==
    \E i \in 1..Len(text) :
        /\ i + Len(alias) - 1 <= Len(text)
        /\ Lower(SubSeq(text, i, i + Len(alias) - 1)) = Lower(alias)
        /\ (i > 1 /\ text[i - 1] \in WordChars) # (text[i] \in WordChars)
        /\ (text[i + Len(alias) - 1] \in WordChars)
               # (i + Len(alias) <= Len(text) /\ text[i + Len(alias)] \in WordChars)

\* two placeholder phrases stand in text with only whitespace between them
AdjacentPlaceholders(text) ==
    \E i, j \in 1..Len(text) :
        /\ i + Len(Placeholder) < j
        /\ j + Len(Placeholder) - 1 <= Len(text)
        /\ Lower(SubSeq(text, i, i + Len(Placeholder) - 1)) = Placeholder
        /\ Lower(SubSeq(text, j, j + Len(Placeholder) - 1)) = Placeholder
        /\ \A k \in (i + Len(Placeholder))..(j - 1) : text[k] \in Whitespace

Anonymous(text, aliases) ==
    \/ ~Truthy(text)
    \/ /\ \A a \in 1..Len(aliases) : ~OccursAsWord(text, aliases[a])
       /\ ~AdjacentPlaceholders(text)

\* C27: in a document returned after a successful single-shot call, the
\* objective, every detail content and every task description hold no
\* whole-word occurrence of an alias and no two adjacent placeholders.
C27_NoAliasLeft ==
    (m_pc = "returned" /\ minutes_data # <<>>) =>
        LET aliases == participant_aliases(m_participants)
        IN  /\ Anonymous(result[1].objective, aliases)
            /\ \A i \in 1..Len(ResultDetails) :
                   Anonymous(ResultDetails[i].v.content, aliases)
            /\ \A i \in 1..Len(result[1].tasks_and_objectives) :
                   Anonymous(result[1].tasks_and_objectives[i].description, aliases)

\* ------------------------------------------------------------------------
\* Properties of the instruction for the first fragment
\* ------------------------------------------------------------------------
\* the seconds of the last [MM:SS] timestamp of the transcript
LastTimestampSeconds(segments) == segments[Len(segments)].start

\* C28: the duration stated in the first fragment's instruction is the last
\* timestamp's seconds divided by 60 and the minimum number of topics is
\* max(3, seconds div 600 + 1).
C28_DurationFromLastTimestamp ==
    (fn_ret # <<>> /\ fn_args[1] # <<>>) =>
        /\ fn_ret[1].minutes = LastTimestampSeconds(fn_args[1]) \div 60
        /\ fn_ret[1].minimum_points =
               MaxOf2(3, LastTimestampSeconds(fn_args[1]) \div 600 + 1)

\* ------------------------------------------------------------------------
\* Further properties of the bullet pass and of the reconciliation pass
\* ------------------------------------------------------------------------
\* the keys of the lines in the details of the topics of mps
AllLineKeys(mps, ds, hp) ==
    UNION {LineKeys(hp, RefGet(ds, mps[i].id)) :
               i \in {k \in 1..Len(mps) : RefGet(ds, mps[k].id) # NoRef}}

\* C29: every normalized bullet line found in some topic's detail before the
\* bullet pass is still found in some topic's detail after it.
C29_NoBulletLost ==
    [][ (pc = "bullets" /\ pc' = "finalize") =>
          AllLineKeys(global_main_points, global_detailed_summary, heap)
              \subseteq AllLineKeys(global_main_points', global_detailed_summary', heap')
      ]_vars

\* the two topics may be merged: same non-empty normalized title, or both
\* titles empty once normalized and the same id whatever the case
MayMerge(t, u) ==
    \/ /\ _normalize_text(t.title) # <<>>
       /\ _normalize_text(t.title) = _normalize_text(u.title)
    \/ /\ _normalize_text(t.title) = <<>>
       /\ _normalize_text(u.title) = <<>>
       /\ Lower(t.id) = Lower(u.id)

\* C30: a topic removed by the reconciliation pass was merged into a
\* surviving topic with the same non-empty normalized title, or with an
\* empty normalized title like its own and the same id ignoring case.
C30_MergeOnlyAlike ==
    fn_ret # <<>> =>
        \A j \in 1..Len(fn_args[1]) :
            fn_args[1][j].id \notin IdsOf(fn_ret[1].mps) =>
                \E k \in 1..Len(fn_ret[1].mps) :
                    MayMerge(fn_ret[1].mps[k], fn_args[1][j])

====
